---- MODULE Spec2Model ----
(***************************************************************************)
(* A model of devlib's cpufreq module (src/devlib/module/cpufreq.py):      *)
(* the use_governor scope (capture, apply, body, restore), the governor,   *)
(* tunable and frequency operations it is built from, and iter_domains.    *)
(* The device is a tree of sysfs files; every read or write of a file is   *)
(* a suspension point of the calling coroutine and may fail.               *)
(***************************************************************************)
EXTENDS Integers, Sequences, FiniteSets, TLC

VARIABLES
    \* the device (sysfs)
    topo,               \* the cpufreq policies: a partition of the CPUs
    gov,                \* cpu -> content of cpuN/cpufreq/scaling_governor
    tun,                \* cpu -> content of cpuN/cpufreq/<governor>/ (readable files)
    gtun,               \* governor -> content of cpu/cpufreq/<governor>/ (readable files)
    freq,               \* cpu -> content of cpuN/cpufreq/scaling_cur_freq
    wcount,             \* file -> number of writes issued to it since Init
    io_failed,          \* a read or write of the device has raised unexpectedly
    \* the CpufreqModule instance
    list_governors_memo,    \* cpus whose list_governors result is memoized
    governor_tunables,      \* self._governor_tunables: governor -> (per_cpu, tunables)
    list_frequencies_memo,  \* cpus whose list_frequencies result is memoized
    \* one use_governor scope
    cpus,               \* the cpus argument (ascending list, held as a set)
    governor,           \* the governor argument
    kwargs,             \* the tunables given as keyword arguments
    phase,              \* where the scope's coroutine is
    tasks,              \* the coroutines of the concurrently() call being awaited
    cpus_infos,         \* cpu -> [affected_cpus, governor, tunables, frequency]
    domains,            \* the first affected cpu of every snapshot
    exc,                \* the exception that left the scope ("none" while there is none)
    exc_context,        \* the exception that was being handled when exc was raised
    body,               \* the body of the scope: "none", "running", "returned", "raised"
    \* what the device held when the scope was entered
    gov0, tun0, gtun0, freq0,
    \* iter_domains
    it_universe,        \* number_of_cpus
    it_related,         \* cpu -> content of cpuN/cpufreq/related_cpus
    it_cpus,            \* the local variable cpus: the cpus not yet in a yielded domain
    it_cpu,             \* the cpu picked in this round
    it_yielded,         \* the domains yielded so far, in order
    it_pc,              \* where the generator is
    it_queries,         \* the number of calls of get_related_cpus made
    \* one operation called on the module directly
    op,                 \* the operation and its arguments
    ncalls,             \* the number of operations called so far
    returned,           \* what the operation returned
    rfiles,             \* the tunable files read since the operation was called
    exc_args,           \* what the exception names (the message's arguments)
    \* the scope in whose body the current scope is
    outer,              \* its arguments and snapshots, and how the inner scope was left
    \* one concurrently() call of the coordinator
    co_tasks,           \* task -> where it is and what it has left to run
    co_call,            \* where the call is: "awaiting", "cancelling", "returned", "raised"
    co_failures,        \* the tasks that failed, in the order they failed
    co_raised,          \* the task whose failure the call raised ("none" if none)
    \* the memoized methods of the instance
    memo_file,          \* (method, cpu) -> content of the sysfs file the method reads
    memo_cache,         \* (method, cpu) -> the result that is stored
    memo_flight,        \* the keys whose computation is in flight
    memo_callers,       \* caller -> the key it calls with, where it is, what it got
    memo_reads,         \* the reads of the device made by the methods, in order
    \* the task runtime, on one thread
    rt_op,              \* the operation the outermost caller called
    rt_sched,           \* the operations the active scheduler is driving (none: not active)
    rt_todo,            \* the calls the operation's coroutine has still to make
    rt_ran,             \* the operations whose work was run since the call
    rt_error,           \* the error raised in the coroutine
    rt_pc,              \* where the call is: "idle", "running", "raising", "returned", "raised"
    rt_runs,            \* the number of calls made by the outermost caller
    \* the SchedModule, one operation at a time
    sched_file,         \* what the device gives the operation to read
    sched_call,         \* the operation and its arguments
    sched_result,       \* what it returned, or the exception it raised
    sched_pc,           \* where the operation is
    \* wait_for_vemsd
    vx_exists,          \* os.path.exists(path): config.txt is there
    vx_retries,         \* the retries argument
    vx_round,           \* the rounds of the loop that were started
    vx_sent,            \* the lines sent to the tty, in order
    vx_pc               \* where the function is

deviceVars == <<topo, gov, tun, gtun, freq, wcount>>
moduleVars == <<list_governors_memo, governor_tunables, list_frequencies_memo>>
scopeVars  == <<cpus, governor, kwargs, phase, tasks, cpus_infos, domains, exc, exc_context,
                body>>
entryVars  == <<gov0, tun0, gtun0, freq0>>
iterVars   == <<it_universe, it_related, it_cpus, it_cpu, it_yielded, it_pc, it_queries>>
callVars   == <<op, ncalls, returned>>
coVars     == <<co_tasks, co_call, co_failures, co_raised>>
memoVars   == <<memo_file, memo_cache, memo_flight, memo_callers, memo_reads>>
rtVars     == <<rt_op, rt_sched, rt_todo, rt_ran, rt_error, rt_pc, rt_runs>>
asynVars   == <<coVars, memoVars, rtVars>>
schedVars  == <<sched_file, sched_call, sched_result, sched_pc>>
vexpressVars == <<vx_exists, vx_retries, vx_round, vx_sent, vx_pc>>
otherModuleVars == <<schedVars, vexpressVars>>
otherVars  == <<iterVars, callVars, asynVars, outer, otherModuleVars>>
vars == <<deviceVars, io_failed, moduleVars, scopeVars, entryVars, otherVars, rfiles, exc_args>>

----------------------------------------------------------------------------
(* Helpers *)

Range(s) == {s[i] : i \in DOMAIN s}

RECURSIVE SortedSeq(_)
SortedSeq(S) ==
    IF S = {} THEN <<>>
    ELSE LET m == CHOOSE x \in S : \A y \in S : x <= y
         IN  <<m>> \o SortedSeq(S \ {m})

\* A dict held as the sequence of its (key, value) items, in insertion order.
Keys(d) == {d[i][1] : i \in DOMAIN d}
KeyList(d) == [i \in DOMAIN d |-> d[i][1]]

----------------------------------------------------------------------------
(* The device *)

Governors == {"ondemand", "interactive", "performance", "userspace"}

\* scaling_available_governors of a cpu, in the file's order.
AvailableGovernors == <<"ondemand", "interactive", "performance", "userspace">>

\* Variant: the dict has no entry.
WRITE_ONLY_TUNABLES_empty(g) == {}

\* a dict of governor name and a list of it tunables that can't be read
WRITE_ONLY_TUNABLES(g) == IF g = "interactive" THEN {"boostpulse"} ELSE {}

\* The entries of a governor's tunable directory, as list_directory gives them.
TunableDir(g) ==
    CASE g = "ondemand"    -> <<"sampling_rate">>
      [] g = "interactive" -> <<"boostpulse", "timer_rate">>
      [] OTHER             -> <<>>

\* Governors whose directory is /sys/devices/system/cpu/cpufreq/<governor>
\* (one for the whole system) instead of cpuN/cpufreq/<governor>.
GlobalGovs == {"interactive"}

\* The files of a governor's directory that hold a value that can be read back.
ReadableFiles(g) == Range(TunableDir(g)) \ WRITE_ONLY_TUNABLES(g)

\* A governor's tunables right after the governor is started.
DefaultTunables(g) == [n \in ReadableFiles(g) |-> 0]

NoTunables == [n \in {} |-> 0]

CPUs == UNION topo

DomainOf(cpu) == CHOOSE d \in topo : cpu \in d

\* cpuN/cpufreq/<g>/ exists
PerCpuDirExists(cpu, g) ==
    gov[cpu] = g /\ g \notin GlobalGovs /\ TunableDir(g) # <<>>

\* cpu/cpufreq/<g>/ exists
GlobalDirExists(g) ==
    g \in GlobalGovs /\ TunableDir(g) # <<>> /\ \E c \in CPUs : gov[c] = g

\* The files the module writes.
GovernorFile(cpu)    == [file |-> "scaling_governor", cpu |-> cpu, gov |-> "", name |-> ""]
SetspeedFile(cpu)    == [file |-> "scaling_setspeed", cpu |-> cpu, gov |-> "", name |-> ""]
\* '/sys/devices/system/cpu/{}/cpufreq/{}/{}'.format(cpu, governor, tunable)
PerCpuFile(cpu, g, n) == [file |-> "per_cpu_tunable", cpu |-> cpu, gov |-> g, name |-> n]
\* '/sys/devices/system/cpu/cpufreq/{}/{}'.format(governor, tunable)
GlobalFile(g, n)     == [file |-> "global_tunable", cpu |-> -1, gov |-> g, name |-> n]

Counted(f) == IF f \in DOMAIN wcount THEN wcount[f] ELSE 0
CountWrite(f) == [x \in DOMAIN wcount \cup {f} |-> IF x = f THEN Counted(f) + 1 ELSE wcount[x]]

\* scaling_available_frequencies, sorted.
AvailableFrequencies == <<1, 2>>
MaxFrequency == AvailableFrequencies[Len(AvailableFrequencies)]

\* The device after a successful write of g to cpu's scaling_governor: the
\* governor belongs to the whole policy; a governor that is started gets
\* its default tunables, one that is stopped loses its directory.
GovAfter(cpu, g) == [c \in CPUs |-> IF c \in DomainOf(cpu) THEN g ELSE gov[c]]
TunAfter(cpu, g) ==
    [c \in CPUs |->
        IF c \in DomainOf(cpu) /\ gov[c] # g
        THEN IF g \in GlobalGovs THEN NoTunables ELSE DefaultTunables(g)
        ELSE tun[c]]
GtunAfter(cpu, g) ==
    [h \in GlobalGovs |->
        LET before == \E c \in CPUs : gov[c] = h
            after  == \E c \in CPUs : GovAfter(cpu, g)[c] = h
        IN  IF before /\ after THEN gtun[h] ELSE DefaultTunables(h)]
FreqAfter(cpu, g) ==
    [c \in CPUs |->
        IF c \in DomainOf(cpu) /\ g = "performance" THEN MaxFrequency ELSE freq[c]]

WriteGovernor(cpu, g) ==
    /\ gov' = GovAfter(cpu, g)
    /\ tun' = TunAfter(cpu, g)
    /\ gtun' = GtunAfter(cpu, g)
    /\ freq' = FreqAfter(cpu, g)
    /\ wcount' = CountWrite(GovernorFile(cpu))

\* The device after a successful write of a tunable file.
WritePerCpuTunable(cpu, g, n, v) ==
    /\ tun' = [c \in CPUs |->
                IF c \in DomainOf(cpu) /\ n \in DOMAIN tun[c]
                THEN [tun[c] EXCEPT ![n] = v] ELSE tun[c]]
    /\ wcount' = CountWrite(PerCpuFile(cpu, g, n))
    /\ UNCHANGED <<topo, gov, gtun, freq>>

WriteGlobalTunable(g, n, v) ==
    /\ gtun' = [h \in GlobalGovs |->
                IF h = g /\ n \in DOMAIN gtun[h]
                THEN [gtun[h] EXCEPT ![n] = v] ELSE gtun[h]]
    /\ wcount' = CountWrite(GlobalFile(g, n))
    /\ UNCHANGED <<topo, gov, tun, freq>>

\* The device after a successful write of scaling_setspeed.
WriteSetspeed(cpu, v) ==
    /\ freq' = [c \in CPUs |-> IF c \in DomainOf(cpu) THEN v ELSE freq[c]]
    /\ wcount' = CountWrite(SetspeedFile(cpu))
    /\ UNCHANGED <<topo, gov, tun, gtun>>

----------------------------------------------------------------------------
(* Reads of the device, as the module's getters see them *)

\* get_affected_cpus: the online cpus of the policy, as the file lists them.
get_affected_cpus(cpu) == SortedSeq(DomainOf(cpu))

\* get_governor
get_governor(cpu) == gov[cpu]

\* get_frequency: scaling_cur_freq (cpuinfo_cur_freq reads the same here)
get_frequency(cpu) == freq[cpu]

\* get_tunable of get_governor_tunables: the cpu's file first, then the
\* global one; CanReadTunable is false when both reads raise.
CanReadTunable(cpu, g, n) ==
    \/ PerCpuDirExists(cpu, g) /\ n \in DOMAIN tun[cpu]
    \/ GlobalDirExists(g) /\ n \in DOMAIN gtun[g]
get_tunable(cpu, g, n) ==
    IF PerCpuDirExists(cpu, g) /\ n \in DOMAIN tun[cpu] THEN tun[cpu][n] ELSE gtun[g][n]

\* What the two list_directory calls of _list_governor_tunables can give on a
\* cache miss: the cpu's directory, else the global one, else nothing (a
\* list_directory that raises is skipped).
Probes(cpu, g) ==
    (IF PerCpuDirExists(cpu, g)
        THEN {[per_cpu |-> TRUE, tunables |-> TunableDir(g)]} ELSE {})
    \cup (IF GlobalDirExists(g)
        THEN {[per_cpu |-> FALSE, tunables |-> TunableDir(g)]} ELSE {})
    \cup {[per_cpu |-> FALSE, tunables |-> <<>>]}

\* _list_governor_tunables: the cached entry, or a probe.
list_governor_tunables(cpu, g) ==
    IF g \in DOMAIN governor_tunables THEN {governor_tunables[g]} ELSE Probes(cpu, g)

\* self._governor_tunables[governor] = data
Cached(g, data) ==
    [h \in DOMAIN governor_tunables \cup {g} |->
        IF h = g THEN data ELSE governor_tunables[h]]

\* Variant: the test of WRITE_ONLY_TUNABLES is inverted.
ReadableTunables_inverted(g, tunable_list) ==
    SelectSeq(tunable_list, LAMBDA n : n \in WRITE_ONLY_TUNABLES(g))

\* get_governor_tunables: the tunables that are read, in the directory's order.
ReadableTunables(g, tunable_list) ==
    SelectSeq(tunable_list, LAMBDA n : n \notin WRITE_ONLY_TUNABLES(g))

----------------------------------------------------------------------------
(* The concurrency coordinator (devlib.utils.asyn) *)

\* concurrently(awaitables): the results, each at the position of its awaitable.
concurrently(awaitables, result) == [i \in DOMAIN awaitables |-> result[awaitables[i]]]

\* map_concurrently(f, keys) = dict(zip(keys, await concurrently(map(f, keys))))
map_concurrently(keys, result) ==
    LET rs == concurrently(keys, result)
    IN  [i \in DOMAIN keys |-> <<keys[i], rs[i]>>]

NoTasks == [t \in {} |-> 0]

Unfinished == {t \in DOMAIN tasks : tasks[t].pc # "done"}

-----------------------------------------------------------------------
(* use_governor: entry and capture *)

\* Variant: the first two awaitables of get_cpu_info change places.
CpuInfoTasks_swapped ==
    <<"get_governor", "get_affected_cpus", "get_governor_tunables", "get_frequency">>

\* The awaitables get_cpu_info gives to concurrently, in order.
CpuInfoTasks ==
    <<"get_affected_cpus", "get_governor", "get_governor_tunables", "get_frequency">>

CaptureTask(cpu, i) == [batch |-> "capture", cpu |-> cpu, slot |-> i]
CaptureTasks(cs) == {CaptureTask(cpu, i) : cpu \in cs, i \in DOMAIN CpuInfoTasks}

Pending == [pc |-> "pending", res |-> [kind |-> "none", val |-> 0]]
Done(kind, val) == [pc |-> "done", res |-> [kind |-> kind, val |-> val]]

\* The entry of self._governor_tunables for a governor without directory.
NoData == [per_cpu |-> FALSE, tunables |-> <<>>]

\* An exception leaves the scope: the coroutines still running are cancelled.
Raise(e, context) ==
    /\ phase' = "raised"
    /\ exc' = e
    /\ exc_context' = context
    /\ tasks' = NoTasks

\* What no step of a coroutine changes but the arguments of its exception.
taskFrame == <<cpus, governor, kwargs, cpus_infos, domains, body, entryVars, otherVars, rfiles>>

\* A read or write of the device raises although the file is there.
Fault == io_failed' = TRUE

\* What no step of a coroutine changes.
scopeFrame == <<cpus, governor, kwargs, cpus_infos, domains, body, entryVars, otherVars,
                   rfiles, exc_args>>

\* if not cpus: cpus = await self.target.list_online_cpus.asyn()
\* and the start of map_concurrently(get_cpu_info, cpus)
Enter ==
    /\ phase = "entry"
    /\ \/ /\ cpus' = IF cpus = {} THEN CPUs ELSE cpus
          /\ phase' = "capture"
          /\ tasks' = [t \in CaptureTasks(cpus') |-> Pending]
          /\ UNCHANGED <<exc, exc_context, io_failed>>
       \/ /\ cpus = {}
          /\ Raise("TargetStableError", "none")
          /\ Fault
          /\ UNCHANGED cpus
    /\ UNCHANGED <<deviceVars, moduleVars, governor, kwargs, cpus_infos, domains, body,
                   entryVars, otherVars,
                   rfiles, exc_args>>

\* Variant: when a read raises, the snapshots that are complete are kept.
CaptureRead_partial(t, kind, val) ==
    /\ phase = "capture"
    /\ t \in DOMAIN tasks
    /\ tasks[t].pc = "pending"
    /\ CpuInfoTasks[t.slot] = kind
    /\ \/ /\ tasks' = [tasks EXCEPT ![t] = Done(kind, val)]
          /\ UNCHANGED <<phase, exc, exc_context, io_failed, cpus_infos>>
       \/ /\ Raise("TargetStableError", "none")
          /\ Fault
          /\ LET finished == {c \in cpus : \A i \in DOMAIN CpuInfoTasks :
                                    tasks[CaptureTask(c, i)].pc = "done"}
             IN  cpus_infos' = [i \in DOMAIN SortedSeq(finished) |->
                    <<SortedSeq(finished)[i],
                      [k \in DOMAIN CpuInfoTasks |->
                            tasks[CaptureTask(SortedSeq(finished)[i], k)].res]>>]
    /\ UNCHANGED <<deviceVars, moduleVars, cpus, governor, kwargs, domains, body,
                   entryVars, otherVars,
                   rfiles, exc_args>>

\* A read of one file by a capture task: it gives val, or raises.
CaptureRead(t, kind, val) ==
    /\ phase = "capture"
    /\ t \in DOMAIN tasks
    /\ tasks[t].pc = "pending"
    /\ CpuInfoTasks[t.slot] = kind
    /\ \/ /\ tasks' = [tasks EXCEPT ![t] = Done(kind, val)]
          /\ UNCHANGED <<phase, exc, exc_context, io_failed>>
       \/ /\ Raise("TargetStableError", "none")
          /\ Fault
    /\ UNCHANGED <<deviceVars, moduleVars, scopeFrame>>

GetAffectedCpus(cpu, i) ==
    CaptureRead(CaptureTask(cpu, i), "get_affected_cpus", get_affected_cpus(cpu))

\* Variant: the new governor is written as soon as the previous one is read.
GetGovernor_applying(cpu, i) ==
    LET t == CaptureTask(cpu, i)
    IN  /\ phase = "capture"
        /\ t \in DOMAIN tasks
        /\ tasks[t].pc = "pending"
        /\ CpuInfoTasks[i] = "get_governor"
        /\ tasks' = [tasks EXCEPT ![t] = Done("get_governor", get_governor(cpu))]
        /\ WriteGovernor(cpu, governor)
        /\ UNCHANGED <<topo, phase, exc, exc_context, io_failed, moduleVars, scopeFrame>>

GetGovernor(cpu, i) ==
    CaptureRead(CaptureTask(cpu, i), "get_governor", get_governor(cpu))

GetFrequency(cpu, i) ==
    CaptureRead(CaptureTask(cpu, i), "get_frequency", get_frequency(cpu))

\* A probe that finds nothing although a directory is there: a list_directory
\* has raised unexpectedly.
ProbeFault(cpu, g, data) ==
    /\ g \notin DOMAIN governor_tunables
    /\ data = NoData
    /\ PerCpuDirExists(cpu, g) \/ GlobalDirExists(g)

\* The files get_tunable reads for the tunables get_governor_tunables keeps:
\* the cpu's file, and the global one when that read raises.
TunableReads(cpu, g, data) ==
    UNION {{PerCpuFile(cpu, g, n)} \cup
           (IF PerCpuDirExists(cpu, g) /\ n \in DOMAIN tun[cpu] THEN {} ELSE {GlobalFile(g, n)}) :
                n \in Range(ReadableTunables(g, data.tunables))}

\* get_governor_tunables(cpu): the governor is read, its tunables are listed
\* (from the cache, or by a probe that is then cached), and every readable
\* one is read; a read that raises on both paths raises.
GetGovernorTunables(cpu, i) ==
    LET t == CaptureTask(cpu, i)
        g == get_governor(cpu)
    IN  /\ phase = "capture"
        /\ t \in DOMAIN tasks
        /\ tasks[t].pc = "pending"
        /\ CpuInfoTasks[i] = "get_governor_tunables"
        /\ \/ \E data \in list_governor_tunables(cpu, g) :
                LET tunable_list == ReadableTunables(g, data.tunables)
                    value == [n \in Range(tunable_list) |-> get_tunable(cpu, g, n)]
                IN  /\ \A n \in Range(tunable_list) : CanReadTunable(cpu, g, n)
                    /\ governor_tunables' = Cached(g, data)
                    /\ tasks' = [tasks EXCEPT ![t] =
                            Done("get_governor_tunables",
                                 map_concurrently(tunable_list, value))]
                    /\ io_failed' = (io_failed \/ ProbeFault(cpu, g, data))
                    /\ rfiles' = rfiles \cup TunableReads(cpu, g, data)
                    /\ UNCHANGED <<phase, exc, exc_context>>
           \/ /\ Raise("TargetStableError", "none")
              /\ Fault
              /\ UNCHANGED <<governor_tunables, rfiles>>
           \/ \E data \in list_governor_tunables(cpu, g) :
                /\ governor_tunables' = Cached(g, data)
                /\ rfiles' = rfiles \cup TunableReads(cpu, g, data)
                /\ Raise("TargetStableError", "none")
                /\ Fault
        /\ UNCHANGED <<deviceVars, list_governors_memo, list_frequencies_memo, cpus, governor,
                       kwargs, cpus_infos, domains, body, entryVars, otherVars, exc_args>>

\* get_cpu_info(cpu): the list concurrently gives for the four reads.
get_cpu_info(cpu) ==
    concurrently([i \in DOMAIN CpuInfoTasks |-> CaptureTask(cpu, i)],
                 [t \in DOMAIN tasks |-> tasks[t].res])

----------------------------------------------------------------------------
(* The coroutines of the apply and restore phases.  A coroutine is        *)
(* [pc, cpu, gov, per_cpu, kw, data, then, freq]: set_governor(cpu, gov,   *)
(* **kw), set_governor_tunables(cpu, gov, per_cpu, **kw) or                *)
(* set_per_cpu_tunables(cpu) (then = "set_frequency": set_frequency(cpu,   *)
(* freq) follows the tunables).                                            *)

HasKey(d, k) == \E i \in DOMAIN d : d[i][1] = k
Get(d, k) == d[CHOOSE i \in DOMAIN d : d[i][1] = k][2]

\* A frequency argument (Union[int, str]): an int or a str.
IntArg(n) == [kind |-> "int", val |-> n, text |-> ""]
StrArg(text) == [kind |-> "str", val |-> 0, text |-> text]

\* int(frequency): an int is itself, a str gives the integer it is the
\* decimal literal of and raises ValueError (ok = FALSE) when it is none.
int(x) ==
    IF x.kind = "int" THEN [ok |-> TRUE, val |-> x.val]
    ELSE IF x.text \in {"2", "3"}
    THEN [ok |-> TRUE, val |-> IF x.text = "2" THEN 2 ELSE 3]
    ELSE [ok |-> FALSE, val |-> 0]

Task(batch, cpu) == [batch |-> batch, cpu |-> cpu, slot |-> 0]

Coroutine(pc, cpu, g, per_cpu, kw, then, f) ==
    [pc |-> pc, cpu |-> cpu, gov |-> g, per_cpu |-> per_cpu, kw |-> kw,
     data |-> NoData, then |-> then, freq |-> f]

\* set_governor(cpu, governor, **kwargs)
set_governor(cpu, g, kw) ==
    Coroutine("list_governors", cpu, g, "None", kw, "return", IntArg(0))

\* set_governor_tunables(cpu, governor, per_cpu=..., **tunables)
set_governor_tunables(cpu, g, per_cpu, kw) ==
    Coroutine("set_governor_tunables", cpu, g, per_cpu, kw, "return", IntArg(0))

\* set_frequency(cpu, frequency), exact=True
set_frequency(cpu, f) ==
    Coroutine("list_frequencies", cpu, "", "None", <<>>, "return", f)

\* get_governor_tunables(cpu), called by itself
get_governor_tunables(cpu) ==
    Coroutine("get_governor_tunables", cpu, "", "None", <<>>, "return", IntArg(0))

\* Variant: the frequency is left out.
set_per_cpu_tunables_without_frequency(cpu, info) ==
    Coroutine("set_governor_tunables", cpu, info[2].val, "True", info[3].val,
              "return", IntArg(info[4].val))

\* set_per_cpu_tunables(cpu) of use_governor:
\* domain, prev_gov, tunables, freq = cpus_infos[cpu]
set_per_cpu_tunables(cpu, info) ==
    Coroutine("set_governor_tunables", cpu, info[2].val, "True", info[3].val,
              IF info[2].val = "userspace" THEN "set_frequency" ELSE "return",
              IntArg(info[4].val))

\* set_min_frequency(cpu, frequency) and set_max_frequency(cpu, frequency),
\* with exact left at True: then is the file that is written.
set_min_frequency(cpu, f) ==
    Coroutine("await_list_frequencies", cpu, "", "None", <<>>, "scaling_min_freq", f)
set_max_frequency(cpu, f) ==
    Coroutine("await_list_frequencies", cpu, "", "None", <<>>, "scaling_max_freq", f)

InTaskPhase == phase \in {"apply", "restore_gov", "restore_tunables", "call"}

At(t, pc) == InTaskPhase /\ t \in DOMAIN tasks /\ tasks[t].pc = pc

\* Variant: the exception being handled is kept and e becomes secondary.
TaskRaises_keeps_first(e) ==
    IF phase = "apply" \/ exc = "none" THEN Raise(e, "none") ELSE Raise(exc, e)

\* A coroutine of the awaited concurrently() raises e: the others are
\* cancelled and e leaves the scope.  In the finally block the exception
\* being handled (the body's, if any) becomes the context of e.
TaskRaises(e) == Raise(e, IF phase = "apply" THEN "none" ELSE exc)

\* Where a coroutine goes when set_governor_tunables returns.
AfterTunables(c) == IF c.then = "set_frequency" THEN "list_frequencies" ELSE "done"

\* Variant: the governor is looked up in the supported ones after it is written.
ListGovernors_after_write(t) ==
    /\ At(t, "list_governors")
    /\ list_governors_memo' = list_governors_memo \cup {tasks[t].cpu}
    /\ WriteGovernor(tasks[t].cpu, tasks[t].gov)
    /\ IF tasks[t].gov \in Range(AvailableGovernors)
       THEN /\ tasks' = [tasks EXCEPT ![t].pc = "set_governor_tunables"]
            /\ UNCHANGED <<phase, exc, exc_context, exc_args>>
       ELSE /\ TaskRaises("TargetStableError")
            /\ exc_args' = <<"Governor not supported", tasks[t].gov, tasks[t].cpu>>
    /\ UNCHANGED <<topo, io_failed, governor_tunables, list_frequencies_memo, taskFrame>>

\* Variant: the governor is not looked up in the supported ones.
ListGovernors_unchecked(t) ==
    /\ At(t, "list_governors")
    /\ list_governors_memo' = list_governors_memo \cup {tasks[t].cpu}
    /\ tasks' = [tasks EXCEPT ![t].pc = "write_governor"]
    /\ UNCHANGED <<phase, exc, exc_context, io_failed>>
    /\ UNCHANGED <<deviceVars, governor_tunables, list_frequencies_memo, scopeFrame>>

\* supported = await self.list_governors.asyn(cpu); if governor not in supported: raise
ListGovernors(t) ==
    /\ At(t, "list_governors")
    /\ \/ /\ list_governors_memo' = list_governors_memo \cup {tasks[t].cpu}
          /\ IF tasks[t].gov \in Range(AvailableGovernors)
             THEN /\ tasks' = [tasks EXCEPT ![t].pc = "write_governor"]
                  /\ UNCHANGED <<phase, exc, exc_context, exc_args>>
             ELSE /\ TaskRaises("TargetStableError")
                  /\ exc_args' = <<"Governor not supported", tasks[t].gov, tasks[t].cpu>>
          /\ UNCHANGED io_failed
       \/ /\ tasks[t].cpu \notin list_governors_memo
          /\ TaskRaises("TargetStableError")
          /\ Fault
          /\ UNCHANGED <<list_governors_memo, exc_args>>
    /\ UNCHANGED <<deviceVars, governor_tunables, list_frequencies_memo, taskFrame>>

\* Variant: the first supported governor is written instead of the one given.
WriteScalingGovernor_first(t) ==
    /\ At(t, "write_governor")
    /\ \/ /\ WriteGovernor(tasks[t].cpu, AvailableGovernors[1])
          /\ tasks' = [tasks EXCEPT ![t].pc = "set_governor_tunables"]
          /\ UNCHANGED <<topo, phase, exc, exc_context, io_failed>>
       \/ /\ TaskRaises("TargetStableError")
          /\ Fault
          /\ UNCHANGED deviceVars
    /\ UNCHANGED <<moduleVars, scopeFrame>>

\* await self.target.write_value.asyn(sysfile, governor)
WriteScalingGovernor(t) ==
    /\ At(t, "write_governor")
    /\ \/ /\ WriteGovernor(tasks[t].cpu, tasks[t].gov)
          /\ tasks' = [tasks EXCEPT ![t].pc = "set_governor_tunables"]
          /\ UNCHANGED <<topo, phase, exc, exc_context, io_failed>>
       \/ /\ TaskRaises("TargetStableError")
          /\ Fault
          /\ UNCHANGED deviceVars
    /\ UNCHANGED <<moduleVars, scopeFrame>>

\* Variant: the directories are listed whatever self._governor_tunables holds.
SetGovernorTunables_uncached(t) ==
    /\ At(t, "set_governor_tunables")
    /\ LET c == tasks[t]
       IN  tasks' = [tasks EXCEPT ![t] =
                IF c.kw = <<>> THEN [c EXCEPT !.pc = AfterTunables(c)]
                ELSE [c EXCEPT !.pc = "list_per_cpu"]]
    /\ UNCHANGED <<deviceVars, io_failed, moduleVars, phase, exc, exc_context, scopeFrame>>

\* set_governor_tunables up to its first read or write: nothing to do without
\* tunables, else the governor's entry of self._governor_tunables is looked up.
SetGovernorTunables(t) ==
    /\ At(t, "set_governor_tunables")
    /\ LET c == tasks[t]
       IN  tasks' = [tasks EXCEPT ![t] =
                IF c.kw = <<>> THEN [c EXCEPT !.pc = AfterTunables(c)]
                ELSE IF c.gov \in DOMAIN governor_tunables
                THEN [c EXCEPT !.pc = "tunable", !.data = governor_tunables[c.gov]]
                ELSE [c EXCEPT !.pc = "list_per_cpu"]]
    /\ UNCHANGED <<deviceVars, io_failed, moduleVars, phase, exc, exc_context, scopeFrame>>

\* list_directory('/sys/devices/system/cpu/{cpu}/cpufreq/{governor}')
ListPerCpuDir(t) ==
    /\ At(t, "list_per_cpu")
    /\ LET c == tasks[t]
           data == [per_cpu |-> TRUE, tunables |-> TunableDir(c.gov)]
       IN  \/ /\ PerCpuDirExists(c.cpu, c.gov)
              /\ governor_tunables' = Cached(c.gov, data)
              /\ tasks' = [tasks EXCEPT ![t] = [c EXCEPT !.pc = "tunable", !.data = data]]
              /\ UNCHANGED io_failed
           \/ /\ tasks' = [tasks EXCEPT ![t].pc = "list_global"]
              /\ io_failed' = (io_failed \/ PerCpuDirExists(c.cpu, c.gov))
              /\ UNCHANGED governor_tunables
    /\ UNCHANGED <<deviceVars, list_governors_memo, list_frequencies_memo,
                   phase, exc, exc_context, scopeFrame>>

\* list_directory('/sys/devices/system/cpu/cpufreq/{governor}'), and the
\* else branch of the loop when it raises too
ListGlobalDir(t) ==
    /\ At(t, "list_global")
    /\ LET c == tasks[t]
       IN  \E data \in (IF GlobalDirExists(c.gov)
                        THEN {[per_cpu |-> FALSE, tunables |-> TunableDir(c.gov)]}
                        ELSE {}) \cup {NoData} :
              /\ governor_tunables' = Cached(c.gov, data)
              /\ tasks' = [tasks EXCEPT ![t] = [c EXCEPT !.pc = "tunable", !.data = data]]
              /\ io_failed' = (io_failed \/ (data = NoData /\ GlobalDirExists(c.gov)))
    /\ UNCHANGED <<deviceVars, list_governors_memo, list_frequencies_memo,
                   phase, exc, exc_context, scopeFrame>>

\* Variant: per_cpu is not looked at, every valid tunable is written.
Skips_never(c) == FALSE

\* Variant: the tunables are passed over when per_cpu is the governor's kind.
Skips_inverted(c) == c.per_cpu # "None" /\ (c.per_cpu = "True") = c.data.per_cpu

\* if per_cpu is not None and gov_per_cpu != per_cpu: continue
Skips(c) == c.per_cpu # "None" /\ (c.per_cpu = "True") # c.data.per_cpu

\* Variant: a tunable the governor does not have is passed over.
Tunable_passing(t) ==
    /\ At(t, "tunable")
    /\ LET c == tasks[t]
           tunable == Head(c.kw)[1]
           value == Head(c.kw)[2]
           next == [c EXCEPT !.kw = Tail(c.kw),
                             !.pc = IF Tail(c.kw) = <<>> THEN AfterTunables(c) ELSE "tunable"]
       IN  IF tunable \in Range(c.data.tunables) /\ ~Skips(c)
           THEN \/ /\ IF c.data.per_cpu
                      THEN /\ PerCpuDirExists(c.cpu, c.gov)
                           /\ WritePerCpuTunable(c.cpu, c.gov, tunable, value)
                      ELSE /\ GlobalDirExists(c.gov)
                           /\ WriteGlobalTunable(c.gov, tunable, value)
                   /\ tasks' = [tasks EXCEPT ![t] = next]
                   /\ UNCHANGED <<phase, exc, exc_context, io_failed, exc_args>>
                \/ /\ TaskRaises("TargetStableError")
                   /\ Fault
                   /\ UNCHANGED <<deviceVars, exc_args>>
           ELSE /\ tasks' = [tasks EXCEPT ![t] = next]
                /\ UNCHANGED <<deviceVars, io_failed, phase, exc, exc_context, exc_args>>
    /\ UNCHANGED <<moduleVars, taskFrame>>

\* One round of the loop over kwargs.items() in set_governor_tunables.
Tunable(t) ==
    /\ At(t, "tunable")
    /\ LET c == tasks[t]
           tunable == Head(c.kw)[1]
           value == Head(c.kw)[2]
           next == [c EXCEPT !.kw = Tail(c.kw),
                             !.pc = IF Tail(c.kw) = <<>> THEN AfterTunables(c) ELSE "tunable"]
       IN  IF tunable \in Range(c.data.tunables)
           THEN IF Skips(c)
                THEN /\ tasks' = [tasks EXCEPT ![t] = next]
                     /\ UNCHANGED <<deviceVars, io_failed, phase, exc, exc_context, exc_args>>
                ELSE \/ /\ IF c.data.per_cpu
                           THEN /\ PerCpuDirExists(c.cpu, c.gov)
                                /\ WritePerCpuTunable(c.cpu, c.gov, tunable, value)
                           ELSE /\ GlobalDirExists(c.gov)
                                /\ WriteGlobalTunable(c.gov, tunable, value)
                        /\ tasks' = [tasks EXCEPT ![t] = next]
                        /\ UNCHANGED <<phase, exc, exc_context, io_failed, exc_args>>
                     \/ /\ TaskRaises("TargetStableError")
                        /\ Fault
                        /\ UNCHANGED <<deviceVars, exc_args>>
           ELSE /\ TaskRaises("TargetStableError")
                /\ exc_args' = <<"Unexpected tunable", tunable, c.gov, c.cpu,
                                 c.data.tunables>>
                /\ UNCHANGED <<deviceVars, io_failed>>
    /\ UNCHANGED <<moduleVars, taskFrame>>

\* set_frequency: available_frequencies = await self.list_frequencies.asyn(cpu)
\* and the check of the value against it
ListFrequencies(t) ==
    /\ At(t, "list_frequencies")
    /\ LET c == tasks[t]
           value == int(c.freq)
       IN  \/ /\ ~value.ok
              /\ TaskRaises("ValueError")
              /\ exc_args' = <<"Frequency must be an integer", c.freq.text>>
              /\ UNCHANGED <<list_frequencies_memo, io_failed>>
           \/ /\ value.ok
              /\ list_frequencies_memo' = list_frequencies_memo \cup {c.cpu}
              /\ IF value.val \in Range(AvailableFrequencies)
                 THEN /\ tasks' = [tasks EXCEPT ![t].pc = "check_governor"]
                      /\ UNCHANGED <<phase, exc, exc_context, exc_args>>
                 ELSE /\ TaskRaises("TargetStableError")
                      /\ exc_args' = <<"Can't set frequency", c.cpu, value.val,
                                       AvailableFrequencies>>
              /\ UNCHANGED io_failed
           \/ /\ value.ok
              /\ c.cpu \notin list_frequencies_memo
              /\ TaskRaises("TargetStableError")
              /\ Fault
              /\ UNCHANGED <<list_frequencies_memo, exc_args>>
    /\ UNCHANGED <<deviceVars, list_governors_memo, governor_tunables, taskFrame>>

\* Variant: the governor is read and not looked at.
CheckGovernor_unchecked(t) ==
    /\ At(t, "check_governor")
    /\ \/ /\ tasks' = [tasks EXCEPT ![t].pc = "write_setspeed"]
          /\ UNCHANGED <<phase, exc, exc_context, exc_args, io_failed>>
       \/ /\ TaskRaises("TargetStableError")
          /\ Fault
          /\ UNCHANGED exc_args
    /\ UNCHANGED <<deviceVars, moduleVars, taskFrame>>

\* if await self.get_governor.asyn(cpu) != 'userspace': raise
CheckGovernor(t) ==
    /\ At(t, "check_governor")
    /\ \/ /\ IF get_governor(tasks[t].cpu) = "userspace"
             THEN /\ tasks' = [tasks EXCEPT ![t].pc = "write_setspeed"]
                  /\ UNCHANGED <<phase, exc, exc_context, exc_args>>
             ELSE /\ TaskRaises("TargetStableError")
                  /\ exc_args' = <<"governor must be userspace", tasks[t].cpu>>
          /\ UNCHANGED io_failed
       \/ /\ TaskRaises("TargetStableError")
          /\ Fault
          /\ UNCHANGED exc_args
    /\ UNCHANGED <<deviceVars, moduleVars, taskFrame>>

\* Variant: a write that fails is passed over.
WriteScalingSetspeed_best_effort(t) ==
    /\ At(t, "write_setspeed")
    /\ \/ /\ WriteSetspeed(tasks[t].cpu, int(tasks[t].freq).val)
          /\ tasks' = [tasks EXCEPT ![t].pc = "read_cpuinfo"]
          /\ UNCHANGED <<phase, exc, exc_context, io_failed>>
       \/ /\ tasks' = [tasks EXCEPT ![t].pc = "read_cpuinfo"]
          /\ Fault
          /\ UNCHANGED <<phase, exc, exc_context, deviceVars>>
    /\ UNCHANGED <<moduleVars, scopeFrame>>

\* await self.target.write_value.asyn(sysfile, value, verify=False)
WriteScalingSetspeed(t) ==
    /\ At(t, "write_setspeed")
    /\ \/ /\ WriteSetspeed(tasks[t].cpu, int(tasks[t].freq).val)
          /\ tasks' = [tasks EXCEPT ![t].pc = "read_cpuinfo"]
          /\ UNCHANGED <<phase, exc, exc_context, io_failed>>
       \/ /\ TaskRaises("TargetStableError")
          /\ Fault
          /\ UNCHANGED deviceVars
    /\ UNCHANGED <<moduleVars, scopeFrame>>

\* cpuinfo = await self.get_frequency.asyn(cpu, cpuinfo=True)
ReadCpuinfo(t) ==
    /\ At(t, "read_cpuinfo")
    /\ \/ /\ tasks' = [tasks EXCEPT ![t].pc = "done"]
          /\ UNCHANGED <<phase, exc, exc_context, io_failed>>
       \/ /\ TaskRaises("TargetStableError")
          /\ Fault
    /\ UNCHANGED <<deviceVars, moduleVars, scopeFrame>>

\* '/sys/devices/system/cpu/{}/cpufreq/scaling_min_freq' and scaling_max_freq
LimitFile(cpu, file) == [file |-> file, cpu |-> cpu, gov |-> "", name |-> ""]

\* set_min_frequency, set_max_frequency:
\* available_frequencies = await self.list_frequencies.asyn(cpu)
AwaitListFrequencies(t) ==
    /\ At(t, "await_list_frequencies")
    /\ \/ /\ list_frequencies_memo' = list_frequencies_memo \cup {tasks[t].cpu}
          /\ tasks' = [tasks EXCEPT ![t].pc = "write_limit"]
          /\ UNCHANGED <<phase, exc, exc_context, io_failed>>
       \/ /\ tasks[t].cpu \notin list_frequencies_memo
          /\ TaskRaises("TargetStableError")
          /\ Fault
          /\ UNCHANGED list_frequencies_memo
    /\ UNCHANGED <<deviceVars, list_governors_memo, governor_tunables, taskFrame, exc_args>>

\* Variant: the value is not looked for in the available frequencies.
WriteLimit_unchecked(t) ==
    /\ At(t, "write_limit")
    /\ LET c == tasks[t]
           value == int(c.freq)
       IN  \/ /\ ~value.ok
              /\ TaskRaises("ValueError")
              /\ exc_args' = <<"Frequency must be an integer", c.freq.text>>
              /\ UNCHANGED <<wcount, io_failed>>
           \/ /\ value.ok
              /\ wcount' = CountWrite(LimitFile(c.cpu, c.then))
              /\ tasks' = [tasks EXCEPT ![t].pc = "done"]
              /\ UNCHANGED <<phase, exc, exc_context, exc_args, io_failed>>
    /\ UNCHANGED <<topo, gov, tun, gtun, freq, moduleVars, taskFrame>>

\* set_min_frequency, set_max_frequency: value = int(frequency), the check
\* of the value against the available frequencies, and the write.
WriteLimit(t) ==
    /\ At(t, "write_limit")
    /\ LET c == tasks[t]
           value == int(c.freq)
       IN  \/ /\ ~value.ok
              /\ TaskRaises("ValueError")
              /\ exc_args' = <<"Frequency must be an integer", c.freq.text>>
              /\ UNCHANGED <<wcount, io_failed>>
           \/ /\ value.ok
              /\ value.val \notin Range(AvailableFrequencies)
              /\ TaskRaises("TargetStableError")
              /\ exc_args' = <<"Can't set frequency", c.cpu, value.val, AvailableFrequencies>>
              /\ UNCHANGED <<wcount, io_failed>>
           \/ /\ value.ok
              /\ value.val \in Range(AvailableFrequencies)
              /\ \/ /\ wcount' = CountWrite(LimitFile(c.cpu, c.then))
                    /\ tasks' = [tasks EXCEPT ![t].pc = "done"]
                    /\ UNCHANGED <<phase, exc, exc_context, exc_args, io_failed>>
                 \/ /\ TaskRaises("TargetStableError")
                    /\ Fault
                    /\ UNCHANGED <<wcount, exc_args>>
    /\ UNCHANGED <<topo, gov, tun, gtun, freq, moduleVars, taskFrame>>

----------------------------------------------------------------------------
(* use_governor: from the snapshots to the end of the scope *)

\* Variant: the governor is set through every cpu of cpus.
CaptureDone_every_cpu ==
    /\ phase = "capture"
    /\ Unfinished = {}
    /\ cpus_infos' = map_concurrently(SortedSeq(cpus), [c \in cpus |-> get_cpu_info(c)])
    /\ domains' = cpus
    /\ phase' = "apply"
    /\ tasks' = [t \in {Task("apply", c) : c \in domains'} |->
                    set_governor(t.cpu, governor, kwargs)]
    /\ UNCHANGED <<deviceVars, io_failed, moduleVars, cpus, governor, kwargs, exc,
                   exc_context, body, entryVars, otherVars, rfiles, exc_args>>

\* cpus_infos = await map_concurrently(get_cpu_info, cpus); domains = set(info[0][0] ...);
\* and the start of concurrently(set_governor(cpu, governor, **kwargs) for cpu in domains)
CaptureDone ==
    /\ phase = "capture"
    /\ Unfinished = {}
    /\ cpus_infos' = map_concurrently(SortedSeq(cpus), [c \in cpus |-> get_cpu_info(c)])
    /\ domains' = {cpus_infos'[i][2][1].val[1] : i \in DOMAIN cpus_infos'}
    /\ phase' = "apply"
    /\ tasks' = [t \in {Task("apply", c) : c \in domains'} |->
                    set_governor(t.cpu, governor, kwargs)]
    /\ UNCHANGED <<deviceVars, io_failed, moduleVars, cpus, governor, kwargs, exc,
                   exc_context, body, entryVars, otherVars,
                   rfiles, exc_args>>

\* Variant: the body runs without the set_governor calls being awaited.
ApplyDone_early ==
    /\ phase = "apply"
    /\ phase' = "body"
    /\ body' = "running"
    /\ tasks' = NoTasks
    /\ UNCHANGED <<deviceVars, io_failed, moduleVars, cpus, governor, kwargs, cpus_infos,
                   domains, exc, exc_context, entryVars, otherVars,
                   rfiles, exc_args>>

\* The governor has been set on every domain: the body runs (yield).
ApplyDone ==
    /\ phase = "apply"
    /\ Unfinished = {}
    /\ phase' = "body"
    /\ body' = "running"
    /\ tasks' = NoTasks
    /\ UNCHANGED <<deviceVars, io_failed, moduleVars, cpus, governor, kwargs, cpus_infos,
                   domains, exc, exc_context, entryVars, otherVars,
                   rfiles, exc_args>>

\* Variant: the tunables of the cpus are set back along with the governors.
Finally_together(e) ==
    IF \E cpu \in domains : ~HasKey(cpus_infos, cpu)
    THEN Raise("KeyError", e)
    ELSE /\ phase' = "restore_gov"
         /\ exc' = e
         /\ exc_context' = "none"
         /\ tasks' = [t \in {Task("restore_gov", c) : c \in domains}
                            \cup {Task("per_cpu", c) : c \in domains} |->
                        IF t.batch = "restore_gov"
                        THEN set_governor(t.cpu, Get(cpus_infos, t.cpu)[2].val, <<>>)
                        ELSE set_per_cpu_tunables(t.cpu, Get(cpus_infos, t.cpu))]

\* The finally block up to its first await, entered while e is being
\* handled ("none": the body returned): the governor of every domain is set
\* back, concurrently.  cpus_infos[cpu] raises KeyError for a cpu without
\* snapshot while the awaitables are built, before any of them runs.
Finally(e) ==
    IF \E cpu \in domains : ~HasKey(cpus_infos, cpu)
    THEN Raise("KeyError", e)
    ELSE /\ phase' = "restore_gov"
         /\ exc' = e
         /\ exc_context' = "none"
         /\ tasks' = [t \in {Task("restore_gov", c) : c \in domains} |->
                        set_governor(t.cpu, Get(cpus_infos, t.cpu)[2].val, <<>>)]

bodyFrame == <<deviceVars, io_failed, moduleVars, cpus, governor, kwargs, cpus_infos,
               domains, entryVars, otherVars,
                   rfiles, exc_args>>

\* The body returns.
BodyReturns ==
    /\ phase = "body"
    /\ body' = "returned"
    /\ Finally("none")
    /\ UNCHANGED bodyFrame

\* The body raises.
BodyRaises ==
    /\ phase = "body"
    /\ body' = "raised"
    /\ Finally("BodyError")
    /\ UNCHANGED bodyFrame

\* Variant: one entry for every cpu of cpus_infos.
global_tunables_dict_every_cpu ==
    {[gov |-> cpus_infos[i][2][2].val, cpu |-> cpus_infos[i][1],
      tunables |-> cpus_infos[i][2][3].val] : i \in DOMAIN cpus_infos}

\* global_tunables_dict = {prev_gov: (cpu, tunables) for cpu, (...) in cpus_infos.items()}
\* held as the set of its (prev_gov, cpu, tunables): the last cpu of a governor wins.
global_tunables_dict ==
    {[gov |-> cpus_infos[i][2][2].val, cpu |-> cpus_infos[i][1],
      tunables |-> cpus_infos[i][2][3].val] :
        i \in {j \in DOMAIN cpus_infos :
                \A k \in DOMAIN cpus_infos :
                    cpus_infos[k][2][2].val = cpus_infos[j][2][2].val => k <= j}}

\* The governors are back: per_cpu_tunables and global_tunables are awaited
\* together.
RestoreGovDone ==
    /\ phase = "restore_gov"
    /\ Unfinished = {}
    /\ phase' = "restore_tunables"
    /\ tasks' =
        [t \in {Task("per_cpu", c) : c \in domains}
               \cup {Task("global", e.cpu) : e \in global_tunables_dict} |->
            IF t.batch = "per_cpu"
            THEN set_per_cpu_tunables(t.cpu, Get(cpus_infos, t.cpu))
            ELSE LET e == CHOOSE e \in global_tunables_dict : e.cpu = t.cpu
                 IN  set_governor_tunables(e.cpu, e.gov, "False", e.tunables)]
    /\ UNCHANGED <<deviceVars, io_failed, moduleVars, cpus, governor, kwargs, cpus_infos,
                   domains, exc, exc_context, body, entryVars, otherVars,
                   rfiles, exc_args>>

\* The finally block ends: the scope is left, by the body's exception if it
\* raised one.
RestoreDone ==
    /\ phase = "restore_tunables"
    /\ Unfinished = {}
    /\ phase' = IF exc = "none" THEN "exited" ELSE "raised"
    /\ tasks' = NoTasks
    /\ UNCHANGED <<deviceVars, io_failed, moduleVars, cpus, governor, kwargs, cpus_infos,
                   domains, exc, exc_context, body, entryVars, otherVars,
                   rfiles, exc_args>>

----------------------------------------------------------------------------
(* A use_governor scope entered and left inside the body of another one *)

\* The scope is in the body of no other scope.
NoScope == [state |-> "none", cpus |-> {}, governor |-> "none", kwargs |-> <<>>,
            cpus_infos |-> <<>>, domains |-> {}, body |-> "none", exc |-> "none"]

NoOuter == outer = NoScope

\* async with use_governor(r.governor, cpus, **r.kwargs) in the body of the
\* scope: the locals of the outer coroutine are kept while the inner one runs.
EnterInner(r) ==
    /\ phase = "body"
    /\ outer = NoScope
    /\ outer' = [state |-> "inner", cpus |-> cpus, governor |-> governor, kwargs |-> kwargs,
                 cpus_infos |-> cpus_infos, domains |-> domains, body |-> "none",
                 exc |-> "none"]
    /\ governor' = r.governor
    /\ kwargs' = r.kwargs
    /\ phase' = "entry"
    /\ tasks' = NoTasks
    /\ cpus_infos' = <<>>
    /\ domains' = {}
    /\ exc' = "none"
    /\ exc_context' = "none"
    /\ body' = "none"
    /\ UNCHANGED <<deviceVars, io_failed, moduleVars, cpus, entryVars, iterVars, callVars,
                   asynVars, otherModuleVars, rfiles, exc_args>>

\* The inner scope has been left, returning or raising, and the body of the
\* outer one goes on with the locals of its coroutine.
LeaveInner ==
    /\ phase \in {"exited", "raised"}
    /\ outer.state = "inner"
    /\ outer' = [outer EXCEPT !.state = phase, !.body = body, !.exc = exc]
    /\ cpus' = outer.cpus
    /\ governor' = outer.governor
    /\ kwargs' = outer.kwargs
    /\ cpus_infos' = outer.cpus_infos
    /\ domains' = outer.domains
    /\ phase' = "body"
    /\ tasks' = NoTasks
    /\ exc' = "none"
    /\ exc_context' = "none"
    /\ body' = "running"
    /\ UNCHANGED <<deviceVars, io_failed, moduleVars, entryVars, iterVars, callVars,
                   asynVars, otherModuleVars, rfiles, exc_args>>

----------------------------------------------------------------------------
(* Operations called on the module directly, one after the other *)

Operation(name, cpu, g, per_cpu, kw, f) ==
    [name |-> name, cpu |-> cpu, gov |-> g, per_cpu |-> per_cpu, kw |-> kw, freq |-> f]

\* The coroutine of an operation.
CoroutineOf(o) ==
    CASE o.name = "set_governor"          -> set_governor(o.cpu, o.gov, o.kw)
      [] o.name = "set_governor_tunables" ->
            set_governor_tunables(o.cpu, o.gov, o.per_cpu, o.kw)
      [] o.name = "set_frequency"         -> set_frequency(o.cpu, o.freq)
      [] o.name = "set_min_frequency"     -> set_min_frequency(o.cpu, o.freq)
      [] o.name = "set_max_frequency"     -> set_max_frequency(o.cpu, o.freq)
      [] o.name = "get_governor_tunables" -> get_governor_tunables(o.cpu)

\* The number of operations called one after the other.
MaxCalls == 3

\* The operation is called: what it writes, reads and raises is counted from here.
Call(o) ==
    /\ phase \in {"idle", "exited", "raised"}
    /\ ncalls < MaxCalls
    /\ op' = o
    /\ ncalls' = ncalls + 1
    /\ phase' = "call"
    /\ tasks' = [t \in {Task("call", o.cpu)} |-> CoroutineOf(o)]
    /\ exc' = "none"
    /\ exc_context' = "none"
    /\ exc_args' = <<>>
    /\ returned' = <<>>
    /\ rfiles' = {}
    /\ wcount' = [f \in {} |-> 0]
    /\ gov0' = gov /\ tun0' = tun /\ gtun0' = gtun /\ freq0' = freq
    /\ UNCHANGED <<topo, gov, tun, gtun, freq, io_failed, moduleVars, cpus, governor, kwargs,
                   cpus_infos, domains, body, iterVars, asynVars, outer,
                   otherModuleVars>>

\* The operation returns.
CallReturns ==
    /\ phase = "call"
    /\ Unfinished = {}
    /\ phase' = "exited"
    /\ tasks' = NoTasks
    /\ UNCHANGED <<deviceVars, io_failed, moduleVars, cpus, governor, kwargs, cpus_infos,
                   domains, exc, exc_context, body, entryVars, otherVars, rfiles, exc_args>>

\* get_governor_tunables(cpu) called by itself: as in the capture, and the
\* dict is returned.
GetTunables(t) ==
    /\ At(t, "get_governor_tunables")
    /\ LET cpu == tasks[t].cpu
           g == get_governor(cpu)
       IN  \/ \E data \in list_governor_tunables(cpu, g) :
                LET tunable_list == ReadableTunables(g, data.tunables)
                    value == [n \in Range(tunable_list) |-> get_tunable(cpu, g, n)]
                IN  /\ \A n \in Range(tunable_list) : CanReadTunable(cpu, g, n)
                    /\ governor_tunables' = Cached(g, data)
                    /\ tasks' = [tasks EXCEPT ![t].pc = "done"]
                    /\ returned' = map_concurrently(tunable_list, value)
                    /\ io_failed' = (io_failed \/ ProbeFault(cpu, g, data))
                    /\ rfiles' = rfiles \cup TunableReads(cpu, g, data)
                    /\ UNCHANGED <<phase, exc, exc_context>>
           \/ /\ TaskRaises("TargetStableError")
              /\ Fault
              /\ UNCHANGED <<governor_tunables, rfiles, returned>>
           \/ \E data \in list_governor_tunables(cpu, g) :
                /\ governor_tunables' = Cached(g, data)
                /\ rfiles' = rfiles \cup TunableReads(cpu, g, data)
                /\ TaskRaises("TargetStableError")
                /\ Fault
                /\ UNCHANGED returned
    /\ UNCHANGED <<deviceVars, list_governors_memo, list_frequencies_memo, cpus, governor,
                   kwargs, cpus_infos, domains, body, entryVars, iterVars, asynVars, outer,
                   otherModuleVars,
                   op, ncalls, exc_args>>

----------------------------------------------------------------------------
(* iter_domains *)

iterFrame == <<deviceVars, io_failed, moduleVars, scopeVars, entryVars, callVars, asynVars, outer,
               otherModuleVars,
               rfiles, exc_args>>

\* cpus = set(range(self.target.number_of_cpus))
IterStart ==
    /\ it_pc = "start"
    /\ it_cpus' = it_universe
    /\ it_pc' = "loop"
    /\ UNCHANGED <<it_universe, it_related, it_cpu, it_yielded, it_queries, iterFrame>>

\* while cpus: cpu = next(iter(cpus))
IterPick ==
    /\ it_pc = "loop"
    /\ IF it_cpus = {}
       THEN it_pc' = "done" /\ UNCHANGED it_cpu
       ELSE it_pc' = "related" /\ it_cpu' \in it_cpus
    /\ UNCHANGED <<it_universe, it_related, it_cpus, it_yielded, it_queries, iterFrame>>

\* domain = await get_related_cpus.asyn(cpu); yield domain
IterYield ==
    /\ it_pc = "related"
    /\ it_queries' = it_queries + 1
    /\ \/ /\ it_yielded' = Append(it_yielded, it_related[it_cpu])
          /\ it_pc' = "yielded"
       \/ /\ it_pc' = "raised"
          /\ UNCHANGED it_yielded
    /\ UNCHANGED <<it_universe, it_related, it_cpus, it_cpu, iterFrame>>

\* Variant: only the cpu that was picked is taken out.
Remaining_but_picked(cs, domain) == cs \ {it_cpu}

\* Variant: the difference is computed and not kept.
Remaining_unchanged(cs, domain) == cs

\* cpus = cpus.difference(domain)
Remaining(cs, domain) == cs \ domain

\* The consumer asks for the next domain.
IterResume ==
    /\ it_pc = "yielded"
    /\ it_cpus' = Remaining(it_cpus, it_yielded[Len(it_yielded)])
    /\ it_pc' = "loop"
    /\ UNCHANGED <<it_universe, it_related, it_cpu, it_yielded, it_queries, iterFrame>>

----------------------------------------------------------------------------
(* The coordinator: failure and cancellation of the tasks of one call *)

coFrame == <<deviceVars, io_failed, moduleVars, scopeVars, entryVars, iterVars, callVars, outer,
             otherModuleVars,
             memoVars, rtVars, rfiles, exc_args>>

\* A task that has not finished and has not been cancelled.
Ready(t) == co_tasks[t].pc = "ready"

\* A task that was cancelled and has not unwound yet.
Cancelling(t) == co_tasks[t].pc = "cancelling"

\* A task runs from one suspension point to the next.
TaskStep(t) ==
    /\ co_call = "awaiting"
    /\ Ready(t)
    /\ co_tasks[t].left > 1
    /\ co_tasks' = [co_tasks EXCEPT ![t].left = @ - 1]
    /\ UNCHANGED <<co_call, co_failures, co_raised, coFrame>>

\* A task runs to its end and has its result.
TaskCompletes(t) ==
    /\ co_call = "awaiting"
    /\ Ready(t)
    /\ co_tasks[t].left = 1
    /\ co_tasks' = [co_tasks EXCEPT ![t].pc = "done"]
    /\ UNCHANGED <<co_call, co_failures, co_raised, coFrame>>

\* A task fails: the coordinator cancels the tasks that have not finished.
TaskFails(t) ==
    /\ co_call = "awaiting"
    /\ Ready(t)
    /\ co_tasks' = [u \in DOMAIN co_tasks |->
                        IF u = t THEN [co_tasks[u] EXCEPT !.pc = "failed"]
                        ELSE IF Ready(u) THEN [co_tasks[u] EXCEPT !.pc = "cancelling"]
                        ELSE co_tasks[u]]
    /\ co_failures' = Append(co_failures, t)
    /\ co_call' = "cancelling"
    /\ UNCHANGED <<co_raised, coFrame>>

\* A cancelled task is resumed at its suspension point with the
\* cancellation and unwinds: it runs what it has to run on the way out, one
\* suspension point after the other, and ends.
TaskUnwinds(t) ==
    /\ co_call = "cancelling"
    /\ Cancelling(t)
    /\ co_tasks' = IF co_tasks[t].cleanup > 0
                   THEN [co_tasks EXCEPT ![t].cleanup = @ - 1]
                   ELSE [co_tasks EXCEPT ![t].pc = "cancelled"]
    /\ UNCHANGED <<co_call, co_failures, co_raised, coFrame>>

\* A cancelled task fails on its way out: the first failure stays the one raised.
TaskFailsUnwinding(t) ==
    /\ co_call = "cancelling"
    /\ Cancelling(t)
    /\ co_tasks[t].cleanup > 0
    /\ co_tasks' = [co_tasks EXCEPT ![t].pc = "failed"]
    /\ co_failures' = Append(co_failures, t)
    /\ UNCHANGED <<co_call, co_raised, coFrame>>

\* Variant: the failure is raised as soon as the cancellations are sent.
CoordinatorRaises_at_once ==
    /\ co_call = "cancelling"
    /\ co_call' = "raised"
    /\ co_raised' = Head(co_failures)
    /\ UNCHANGED <<co_tasks, co_failures, coFrame>>

\* Every cancellation is acknowledged: the call raises the first failure.
CoordinatorRaises ==
    /\ co_call = "cancelling"
    /\ \A t \in DOMAIN co_tasks : ~Cancelling(t)
    /\ co_call' = "raised"
    /\ co_raised' = Head(co_failures)
    /\ UNCHANGED <<co_tasks, co_failures, coFrame>>

\* Every task has completed: the call returns the results.
CoordinatorReturns ==
    /\ co_call = "awaiting"
    /\ \A t \in DOMAIN co_tasks : co_tasks[t].pc = "done"
    /\ co_call' = "returned"
    /\ UNCHANGED <<co_tasks, co_failures, co_raised, coFrame>>

----------------------------------------------------------------------------
(* The memoized methods: list_governors, get_related_cpus, get_driver *)

memoFrame == <<deviceVars, io_failed, moduleVars, scopeVars, entryVars, iterVars, callVars, outer,
               otherModuleVars,
               coVars, rtVars, rfiles, exc_args>>

\* The key of a call: the method (of the one instance) and its argument.
MemoKey(method, cpu) == [method |-> method, cpu |-> cpu]

\* The calls made: two methods, one of them for two cpus.
MemoKeys ==
    {MemoKey("list_governors", 0), MemoKey("list_governors", 1),
     MemoKey("get_related_cpus", 0)}

Idle(k) == [key |-> k, pc |-> "idle", result |-> 0, how |-> "none"]

\* What a call that returns leaves in memo_callers.
Returned(k, v, how) == [key |-> k, pc |-> "returned", result |-> v, how |-> how]

\* Variant: a computation in flight is not looked for.
get_or_compute_cold(c) ==
    LET k == memo_callers[c].key
    IN  /\ memo_callers[c].pc = "idle"
        /\ IF k \in DOMAIN memo_cache
           THEN /\ memo_callers' =
                       [memo_callers EXCEPT ![c] = Returned(k, memo_cache[k], "stored")]
                /\ UNCHANGED memo_flight
           ELSE /\ memo_callers' = [memo_callers EXCEPT ![c].pc = "producing"]
                /\ memo_flight' = memo_flight \cup {k}
        /\ UNCHANGED <<memo_file, memo_cache, memo_reads, memoFrame>>

\* get_or_compute(key, producer) up to its first suspension point: the
\* stored result is returned, or the computation in flight is awaited, or
\* the producer is started and recorded as in flight.
get_or_compute(c) ==
    LET k == memo_callers[c].key
    IN  /\ memo_callers[c].pc = "idle"
        /\ IF k \in DOMAIN memo_cache
           THEN /\ memo_callers' =
                       [memo_callers EXCEPT ![c] = Returned(k, memo_cache[k], "stored")]
                /\ UNCHANGED memo_flight
           ELSE IF k \in memo_flight
           THEN /\ memo_callers' = [memo_callers EXCEPT ![c].pc = "awaiting"]
                /\ UNCHANGED memo_flight
           ELSE /\ memo_callers' = [memo_callers EXCEPT ![c].pc = "producing"]
                /\ memo_flight' = memo_flight \cup {k}
        /\ UNCHANGED <<memo_file, memo_cache, memo_reads, memoFrame>>

\* The producer: output = await self.target.read_value.asyn(sysfile), and
\* what is made of it is stored for good and returned.
ReadValue(c) ==
    LET k == memo_callers[c].key
        v == memo_file[k]
    IN  /\ memo_callers[c].pc = "producing"
        /\ memo_reads' = Append(memo_reads, [key |-> k, value |-> v])
        /\ memo_cache' = [j \in DOMAIN memo_cache \cup {k} |->
                            IF j = k THEN v ELSE memo_cache[j]]
        /\ memo_flight' = memo_flight \ {k}
        /\ memo_callers' = [memo_callers EXCEPT ![c] = Returned(k, v, "produced")]
        /\ UNCHANGED <<memo_file, memoFrame>>

\* A caller that awaited the computation in flight is resumed with its result.
AwaitedResult(c) ==
    LET k == memo_callers[c].key
    IN  /\ memo_callers[c].pc = "awaiting"
        /\ k \in DOMAIN memo_cache
        /\ memo_callers' = [memo_callers EXCEPT ![c] = Returned(k, memo_cache[k], "awaited")]
        /\ UNCHANGED <<memo_file, memo_cache, memo_flight, memo_reads, memoFrame>>

\* The content of a file changes on the device (a governor is loaded, say).
SysfsChanges(k) ==
    /\ memo_file[k] = 1
    /\ memo_file' = [memo_file EXCEPT ![k] = 2]
    /\ UNCHANGED <<memo_cache, memo_flight, memo_callers, memo_reads, memoFrame>>

----------------------------------------------------------------------------
(* The task runtime: the blocking calls made by the operations' coroutines *)

rtFrame == <<deviceVars, io_failed, moduleVars, scopeVars, entryVars, iterVars, callVars, outer,
             otherModuleVars,
             coVars, memoVars, rfiles, exc_args>>

\* An operation called through its blocking form.
Blocking(name, cs, fallback) == [name |-> name, cpus |-> cs, fallback |-> fallback]

\* The operations the outermost caller calls: fallback says that neither
\* scaling_available_frequencies nor stats/time_in_state can be read.
RtOperations ==
    {Blocking(n, cs, FALSE) : n \in {"set_governor_for_cpus", "set_frequency_for_cpus"},
                              cs \in SUBSET {0, 1, 2}}
    \cup {Blocking("list_frequencies", {c}, b) : c \in {0, 1}, b \in BOOLEAN}
    \cup {Blocking("set_governor", {c}, FALSE) : c \in {0, 1}}

\* The calls of a blocking form that the coroutine of an operation makes,
\* in order: self.set_governor(cpu, ...) and self.set_frequency(cpu, ...)
\* for cpu in sorted(set(cpus)), self.target.file_exists(path).
FacadeCalls(o) ==
    LET each(n) == [i \in 1 .. Cardinality(o.cpus) |->
                        Blocking(n, {SortedSeq(o.cpus)[i]}, FALSE)]
    IN  CASE o.name = "set_governor_for_cpus" -> each("set_governor")
          [] o.name = "set_frequency_for_cpus" -> each("set_frequency")
          [] o.name = "list_frequencies" ->
                IF o.fallback THEN <<Blocking("file_exists", o.cpus, FALSE)>> ELSE <<>>
          [] OTHER -> <<>>

\* Variant: a call made while the scheduler is active is run as well.
Refuses_never(sched) == FALSE

\* run_blocking refuses when a scheduler is active on the calling thread.
Refuses(sched) == sched # <<>>

\* The number of calls the outermost caller makes.
MaxRuns == 3

\* run_blocking called by the outermost caller: the scheduler becomes
\* active and drives the operation's coroutine.
RunBlocking(o) ==
    /\ rt_pc \in {"idle", "returned", "raised"}
    /\ rt_runs < MaxRuns
    /\ ~Refuses(rt_sched)
    /\ rt_op' = o
    /\ rt_runs' = rt_runs + 1
    /\ rt_sched' = <<o>>
    /\ rt_ran' = {o}
    /\ rt_todo' = FacadeCalls(o)
    /\ rt_error' = "none"
    /\ rt_pc' = "running"
    /\ UNCHANGED rtFrame

\* The coroutine calls the blocking form of an operation: run_blocking is
\* called with the scheduler active.
FacadeCall ==
    /\ rt_pc = "running"
    /\ rt_todo # <<>>
    /\ IF Refuses(rt_sched)
       THEN /\ rt_error' = "ReentrancyError"
            /\ rt_pc' = "raising"
            /\ UNCHANGED <<rt_ran, rt_todo>>
       ELSE /\ rt_ran' = rt_ran \cup {Head(rt_todo)}
            /\ rt_todo' = Tail(rt_todo)
            /\ UNCHANGED <<rt_error, rt_pc>>
    /\ UNCHANGED <<rt_op, rt_sched, rt_runs, rtFrame>>

\* The coroutine returns: run_blocking returns its result.
CoroutineReturns ==
    /\ rt_pc = "running"
    /\ rt_todo = <<>>
    /\ rt_sched' = <<>>
    /\ rt_pc' = "returned"
    /\ UNCHANGED <<rt_op, rt_todo, rt_ran, rt_error, rt_runs, rtFrame>>

\* The error leaves the coroutine: run_blocking raises it to its caller.
ErrorPropagates ==
    /\ rt_pc = "raising"
    /\ rt_sched' = <<>>
    /\ rt_pc' = "raised"
    /\ UNCHANGED <<rt_op, rt_todo, rt_ran, rt_error, rt_runs, rtFrame>>

----------------------------------------------------------------------------
(* Initial states and specifications *)

\* The policies of the devices a scope is run on.
ScopeTopologies == {{{0, 1}, {2}}}

\* The governors a policy can have when the scope is entered.
InitialGovernors == {"ondemand", "interactive", "userspace"}

\* The (governor, **kwargs) a scope is entered with.
Requests ==
    {[governor |-> "performance", kwargs |-> <<>>],
     [governor |-> "ondemand", kwargs |-> <<<<"sampling_rate", 2>>>>]}

\* The longest cpus list given explicitly (an empty one means all online cpus).
MaxTargets == 2

\* The number of cpus iter_domains is run on.
NumCpus == 4

InitDevice(topologies, governors) ==
    /\ topo \in topologies
    /\ gov \in {g \in [UNION topo -> governors] :
                    \A d \in topo : \A a, b \in d : g[a] = g[b]}
    /\ tun = [c \in UNION topo |->
                IF gov[c] \in GlobalGovs THEN NoTunables
                ELSE [n \in ReadableFiles(gov[c]) |-> 1]]
    /\ gtun = [h \in GlobalGovs |->
                IF \E c \in UNION topo : gov[c] = h
                THEN [n \in ReadableFiles(h) |-> 1] ELSE DefaultTunables(h)]
    /\ freq = [c \in UNION topo |-> 1]
    /\ wcount = [f \in {} |-> 0]
    /\ io_failed = FALSE
    /\ gov0 = gov /\ tun0 = tun /\ gtun0 = gtun /\ freq0 = freq

InitModule ==
    /\ list_governors_memo = {}
    /\ governor_tunables = [g \in {} |-> NoData]
    /\ list_frequencies_memo = {}

InitScope(targets, requests) ==
    /\ cpus \in targets
    /\ \E r \in requests : governor = r.governor /\ kwargs = r.kwargs
    /\ phase = "entry"
    /\ tasks = NoTasks
    /\ cpus_infos = <<>>
    /\ domains = {}
    /\ exc = "none"
    /\ exc_context = "none"
    /\ body = "none"

\* No operation of the SchedModule is called.
NoSched ==
    /\ sched_file = <<>>
    /\ sched_call = [name |-> "none"]
    /\ sched_result = [kind |-> "none"]
    /\ sched_pc = "idle"

\* wait_for_vemsd is not called.
NoVexpress ==
    /\ vx_exists = FALSE
    /\ vx_retries = 0
    /\ vx_round = 0
    /\ vx_sent = <<>>
    /\ vx_pc = "idle"

NoOtherModules == NoSched /\ NoVexpress

\* No operation is called on the module directly.
NoOp == [name |-> "none"]

NoCall ==
    /\ op = NoOp
    /\ ncalls = 0
    /\ returned = <<>>
    /\ rfiles = {}
    /\ exc_args = <<>>

\* No concurrently() call is followed task by task.
NoCoordinator ==
    /\ co_tasks = <<>>
    /\ co_call = "unused"
    /\ co_failures = <<>>
    /\ co_raised = "none"

\* No memoized method is called.
NoMemo ==
    /\ memo_file = <<>>
    /\ memo_cache = <<>>
    /\ memo_flight = {}
    /\ memo_callers = <<>>
    /\ memo_reads = <<>>

\* No blocking call is followed.
NoRuntime ==
    /\ rt_op = Blocking("none", {}, FALSE)
    /\ rt_sched = <<>>
    /\ rt_todo = <<>>
    /\ rt_ran = {}
    /\ rt_error = "none"
    /\ rt_pc = "unused"
    /\ rt_runs = 0

NoAsyn == NoCoordinator /\ NoMemo /\ NoRuntime

\* The generator is not used.
NoIter ==
    /\ it_universe = {}
    /\ it_related = <<>>
    /\ it_cpus = {}
    /\ it_cpu = 0
    /\ it_yielded = <<>>
    /\ it_pc = "unused"
    /\ it_queries = 0

Init ==
    /\ InitDevice(ScopeTopologies, InitialGovernors)
    /\ InitModule
    /\ InitScope({S \in SUBSET UNION topo : Cardinality(S) <= MaxTargets}, Requests)
    /\ NoIter
    /\ NoCall
    /\ NoOuter
    /\ NoOtherModules
    /\ NoAsyn

Capture ==
    \/ \E cpu \in cpus, i \in DOMAIN CpuInfoTasks : GetAffectedCpus(cpu, i)
    \/ \E cpu \in cpus, i \in DOMAIN CpuInfoTasks : GetGovernor(cpu, i)
    \/ \E cpu \in cpus, i \in DOMAIN CpuInfoTasks : GetGovernorTunables(cpu, i)
    \/ \E cpu \in cpus, i \in DOMAIN CpuInfoTasks : GetFrequency(cpu, i)
    \/ CaptureDone

Phases ==
    \/ Enter
    \/ Capture
    \/ ApplyDone
    \/ BodyReturns
    \/ BodyRaises
    \/ RestoreGovDone
    \/ RestoreDone

Next ==
    \/ Phases
    \/ \E t \in DOMAIN tasks : ListGovernors(t)
    \/ \E t \in DOMAIN tasks : WriteScalingGovernor(t)
    \/ \E t \in DOMAIN tasks : SetGovernorTunables(t)
    \/ \E t \in DOMAIN tasks : ListPerCpuDir(t)
    \/ \E t \in DOMAIN tasks : ListGlobalDir(t)
    \/ \E t \in DOMAIN tasks : Tunable(t)
    \/ \E t \in DOMAIN tasks : ListFrequencies(t)
    \/ \E t \in DOMAIN tasks : CheckGovernor(t)
    \/ \E t \in DOMAIN tasks : WriteScalingSetspeed(t)
    \/ \E t \in DOMAIN tasks : ReadCpuinfo(t)

Spec == Init /\ [][Next]_vars

\* Two scopes, one in the body of the other, on the same cpus.
InitNested ==
    /\ InitDevice(ScopeTopologies, {"ondemand", "userspace"})
    /\ InitModule
    /\ InitScope({S \in SUBSET UNION topo : Cardinality(S) <= MaxTargets}, Requests)
    /\ NoIter
    /\ NoCall
    /\ NoOuter
    /\ NoOtherModules
    /\ NoAsyn

NextNested ==
    \/ Next
    \/ \E r \in Requests : EnterInner(r)
    \/ LeaveInner

SpecNested == InitNested /\ [][NextNested]_vars

\* The scenario of two domains of two cpus, all on "ondemand", taken to
\* "performance" without tunables: the steps of Next that the scenario has.
InitScenario ==
    /\ InitDevice({{{0, 1}, {2, 3}}}, {"ondemand"})
    /\ InitModule
    /\ InitScope({{0, 1, 2, 3}}, {[governor |-> "performance", kwargs |-> <<>>]})
    /\ NoIter
    /\ NoCall
    /\ NoOuter
    /\ NoOtherModules
    /\ NoAsyn

NextScenario ==
    \/ Phases
    \/ \E t \in DOMAIN tasks : ListGovernors(t)
    \/ \E t \in DOMAIN tasks : WriteScalingGovernor(t)
    \/ \E t \in DOMAIN tasks : SetGovernorTunables(t)
    \/ \E t \in DOMAIN tasks : Tunable(t)

SpecScenario == InitScenario /\ [][NextScenario]_vars

\* The operations called directly, with their arguments: governors that are
\* and are not supported, tunables that are and are not in the directory,
\* frequencies that are and are not available.
Operations ==
    {Operation("set_governor", 0, "interactive", "None", <<>>, IntArg(0)),
     Operation("set_governor", 0, "ondemand", "None", <<<<"sampling_rate", 2>>>>, IntArg(0)),
     Operation("set_governor", 0, "powersave", "None", <<<<"sampling_rate", 2>>>>, IntArg(0)),
     Operation("set_governor", 2, "ondemand", "None", <<<<"bogus", 1>>>>, IntArg(0)),
     Operation("set_governor_tunables", 0, "interactive", "None", <<<<"boostpulse", 1>>>>, IntArg(0)),
     Operation("set_governor_tunables", 0, "interactive", "None",
               <<<<"timer_rate", 2>>, <<"bogus", 1>>, <<"boostpulse", 1>>>>, IntArg(0)),
     Operation("set_governor_tunables", 0, "ondemand", "None", <<>>, IntArg(0)),
     Operation("set_governor_tunables", 0, "interactive", "True", <<<<"timer_rate", 2>>>>, IntArg(0)),
     Operation("set_governor_tunables", 0, "ondemand", "False", <<<<"sampling_rate", 2>>>>, IntArg(0)),
     Operation("set_frequency", 0, "", "None", <<>>, IntArg(2)),
     Operation("set_frequency", 0, "", "None", <<>>, IntArg(3)),
     Operation("set_frequency", 0, "", "None", <<>>, StrArg("2")),
     Operation("set_frequency", 0, "", "None", <<>>, StrArg("2MHz")),
     Operation("set_min_frequency", 0, "", "None", <<>>, IntArg(1)),
     Operation("set_min_frequency", 0, "", "None", <<>>, IntArg(3)),
     Operation("set_min_frequency", 0, "", "None", <<>>, StrArg("2MHz")),
     Operation("set_max_frequency", 0, "", "None", <<>>, StrArg("2")),
     Operation("set_max_frequency", 0, "", "None", <<>>, StrArg("3")),
     Operation("set_max_frequency", 0, "", "None", <<>>, StrArg("max")),
     Operation("get_governor_tunables", 0, "", "None", <<>>, IntArg(0))}

InitOps ==
    /\ InitDevice(ScopeTopologies, InitialGovernors)
    /\ InitModule
    /\ cpus = {} /\ governor = "none" /\ kwargs = <<>>
    /\ phase = "idle"
    /\ tasks = NoTasks
    /\ cpus_infos = <<>> /\ domains = {}
    /\ exc = "none" /\ exc_context = "none"
    /\ body = "none"
    /\ NoIter
    /\ NoCall
    /\ NoOuter
    /\ NoOtherModules
    /\ NoAsyn

NextOps ==
    \/ \E o \in Operations : Call(o)
    \/ CallReturns
    \/ \E t \in DOMAIN tasks : GetTunables(t)
    \/ \E t \in DOMAIN tasks : ListGovernors(t)
    \/ \E t \in DOMAIN tasks : WriteScalingGovernor(t)
    \/ \E t \in DOMAIN tasks : SetGovernorTunables(t)
    \/ \E t \in DOMAIN tasks : ListPerCpuDir(t)
    \/ \E t \in DOMAIN tasks : ListGlobalDir(t)
    \/ \E t \in DOMAIN tasks : Tunable(t)
    \/ \E t \in DOMAIN tasks : ListFrequencies(t)
    \/ \E t \in DOMAIN tasks : CheckGovernor(t)
    \/ \E t \in DOMAIN tasks : WriteScalingSetspeed(t)
    \/ \E t \in DOMAIN tasks : ReadCpuinfo(t)
    \/ \E t \in DOMAIN tasks : AwaitListFrequencies(t)
    \/ \E t \in DOMAIN tasks : WriteLimit(t)

SpecOps == InitOps /\ [][NextOps]_vars

\* iter_domains on a device whose related_cpus files give the policies: a
\* partition of the cpus, each policy named by its lowest cpu.
Policies(U) ==
    {p \in [U -> U] : \A c \in U : p[c] <= c /\ p[p[c]] = p[c]}

InitIter ==
    /\ InitDevice({{{0}}}, {"ondemand"})
    /\ InitModule
    /\ InitScope({{}}, {[governor |-> "performance", kwargs |-> <<>>]})
    /\ it_universe = 0 .. NumCpus - 1
    /\ \E p \in Policies(it_universe) :
        it_related = [c \in it_universe |-> {d \in it_universe : p[d] = p[c]}]
    /\ it_cpus = {}
    /\ it_cpu = 0
    /\ it_yielded = <<>>
    /\ it_pc = "start"
    /\ it_queries = 0
    /\ NoCall
    /\ NoOuter
    /\ NoOtherModules
    /\ NoAsyn

NextIter ==
    \/ IterStart
    \/ IterPick
    \/ IterYield
    \/ IterResume

SpecIter == InitIter /\ [][NextIter]_vars

\* The generator is run and its consumer asks for the next domain as long
\* as there is one.
SpecIterFair == SpecIter /\ WF_vars(NextIter)

\* The module is left alone.
NoModuleUse ==
    /\ InitDevice({{{0}}}, {"ondemand"})
    /\ InitModule
    /\ InitScope({{}}, {[governor |-> "performance", kwargs |-> <<>>]})
    /\ NoIter
    /\ NoCall
    /\ NoOuter

\* The number of tasks given to concurrently().
MaxTasks == 3

\* What a task has to run: the suspension points to its end, and the ones
\* on its way out when it is cancelled.
TaskShapes == {[pc |-> "ready", left |-> l, cleanup |-> c] : l \in {1, 2}, c \in {0, 1}}

InitConcurrently ==
    /\ NoModuleUse
    /\ NoOtherModules
    /\ NoMemo
    /\ NoRuntime
    /\ co_tasks \in [1 .. MaxTasks -> TaskShapes]
    /\ co_call = "awaiting"
    /\ co_failures = <<>>
    /\ co_raised = "none"

NextConcurrently ==
    \/ \E t \in DOMAIN co_tasks : TaskStep(t)
    \/ \E t \in DOMAIN co_tasks : TaskCompletes(t)
    \/ \E t \in DOMAIN co_tasks : TaskFails(t)
    \/ \E t \in DOMAIN co_tasks : TaskUnwinds(t)
    \/ \E t \in DOMAIN co_tasks : TaskFailsUnwinding(t)
    \/ CoordinatorRaises
    \/ CoordinatorReturns

SpecConcurrently == InitConcurrently /\ [][NextConcurrently]_vars

\* The number of calls of memoized methods.
MaxCallers == 3

InitMemo ==
    /\ NoModuleUse
    /\ NoOtherModules
    /\ NoCoordinator
    /\ NoRuntime
    /\ memo_file = [k \in MemoKeys |-> 1]
    /\ memo_cache = [k \in {} |-> 0]
    /\ memo_flight = {}
    /\ memo_callers \in [1 .. MaxCallers -> {Idle(k) : k \in MemoKeys}]
    /\ memo_reads = <<>>

NextMemo ==
    \/ \E c \in DOMAIN memo_callers : get_or_compute(c)
    \/ \E c \in DOMAIN memo_callers : ReadValue(c)
    \/ \E c \in DOMAIN memo_callers : AwaitedResult(c)
    \/ \E k \in MemoKeys : SysfsChanges(k)

SpecMemo == InitMemo /\ [][NextMemo]_vars

InitRuntime ==
    /\ NoModuleUse
    /\ NoOtherModules
    /\ NoCoordinator
    /\ NoMemo
    /\ rt_op = Blocking("none", {}, FALSE)
    /\ rt_sched = <<>>
    /\ rt_todo = <<>>
    /\ rt_ran = {}
    /\ rt_error = "none"
    /\ rt_pc = "idle"
    /\ rt_runs = 0

NextRuntime ==
    \/ \E o \in RtOperations : RunBlocking(o)
    \/ FacadeCall
    \/ CoroutineReturns
    \/ ErrorPropagates

SpecRuntime == InitRuntime /\ [][NextRuntime]_vars

----------------------------------------------------------------------------
(* SchedModule (src/devlib/module/sched.py): the scheduler's features.  A  *)
(* name is the sequence of its characters; the features file is the list  *)
(* of the kernel's features, each with its state.                          *)

schedFrame == <<deviceVars, io_failed, moduleVars, scopeVars, entryVars, iterVars, callVars,
                asynVars, outer, vexpressVars, rfiles, exc_args>>

\* The names of the features: "NOA" stands for a name that begins with the
\* letters NO, as NONTASK_CAPACITY does.
FeatureNames == {<<"A">>, <<"B">>, <<"N", "O", "A">>}

\* The most features the kernel has.
MaxFeatures == 2

\* The features of a kernel, in the order of its table.
FeatureFiles ==
    {f \in UNION {[1 .. n -> [name : FeatureNames, on : BOOLEAN]] : n \in 0 .. MaxFeatures} :
        \A i, j \in DOMAIN f : f[i].name = f[j].name => i = j}

\* What the kernel prints for a feature: its name, after NO_ when it is off.
FeatureText(e) == IF e.on THEN e.name ELSE <<"N", "O", "_">> \o e.name

\* feats = self.target.read_value(path); feats.split()
ReadFeatures == [i \in DOMAIN sched_file |-> FeatureText(sched_file[i])]

\* s.startswith(prefix)
startswith(s, prefix) == Len(s) >= Len(prefix) /\ SubSeq(s, 1, Len(prefix)) = prefix

\* s.replace(old, '', 1): the first occurrence of old is taken out of s.
replace(s, old) ==
    LET at == {i \in 1 .. Len(s) - Len(old) + 1 : SubSeq(s, i, i + Len(old) - 1) = old}
    IN  IF at = {} THEN s
        ELSE LET i == CHOOSE i \in at : \A j \in at : i <= j
             IN  SubSeq(s, 1, i - 1) \o SubSeq(s, i + Len(old), Len(s))

\* The loop of get_features over feats.split(): features[feat] = value
get_features(feats) ==
    LET no(i) == startswith(feats[i], <<"N", "O">>)
        feat(i) == IF no(i) THEN replace(feats[i], <<"N", "O", "_">>) ELSE feats[i]
        last(k) == CHOOSE i \in DOMAIN feats :
                        feat(i) = k /\ \A j \in DOMAIN feats : feat(j) = k => j <= i
    IN  [k \in {feat(i) : i \in DOMAIN feats} |-> ~no(last(k))]

SchedAtRest == sched_pc \in {"idle", "returned", "raised"}

SchedCall(name, feature, enable, verify) ==
    [name |-> name, feature |-> feature, enable |-> enable, verify |-> verify]

\* get_features()
GetFeatures ==
    /\ SchedAtRest
    /\ sched_call' = SchedCall("get_features", <<>>, FALSE, FALSE)
    /\ sched_result' = [kind |-> "returned", val |-> get_features(ReadFeatures)]
    /\ sched_pc' = "returned"
    /\ UNCHANGED <<sched_file, schedFrame>>

\* The kernel's handling of a write to the features file: NO_ in front
\* turns the feature off; a name it does not know is an error.
KnownFeature(text) ==
    LET name == IF startswith(text, <<"N", "O", "_">>) THEN SubSeq(text, 4, Len(text)) ELSE text
    IN  \E i \in DOMAIN sched_file : sched_file[i].name = name

FeaturesAfter(text) ==
    LET neg == startswith(text, <<"N", "O", "_">>)
        name == IF neg THEN SubSeq(text, 4, Len(text)) ELSE text
    IN  [i \in DOMAIN sched_file |->
            IF sched_file[i].name = name THEN [sched_file[i] EXCEPT !.on = ~neg]
            ELSE sched_file[i]]

\* set_feature(feature, enable, verify) up to the write of the file.
SetFeature(feature, enable, verify) ==
    /\ SchedAtRest
    /\ sched_call' = SchedCall("set_feature", feature, enable, verify)
    /\ LET feat_value == IF enable THEN feature ELSE <<"N", "O", "_">> \o feature
       IN  IF KnownFeature(feat_value)
           THEN /\ sched_file' = FeaturesAfter(feat_value)
                /\ sched_pc' = IF verify THEN "verify" ELSE "returned"
                /\ sched_result' = [kind |-> IF verify THEN "none" ELSE "returned", val |-> <<>>]
           ELSE /\ sched_pc' = "raised"
                /\ sched_result' = [kind |-> "TargetStableError", val |-> <<>>]
                /\ UNCHANGED sched_file
    /\ UNCHANGED schedFrame

\* features = self.get_features(); feat_ = features.get(feature, not enable)
VerifyFeature ==
    /\ sched_pc = "verify"
    /\ LET features == get_features(ReadFeatures)
           feat_ == IF sched_call.feature \in DOMAIN features
                    THEN features[sched_call.feature] ELSE ~sched_call.enable
       IN  IF feat_ # sched_call.enable
           THEN /\ sched_pc' = "raised"
                /\ sched_result' = [kind |-> "RuntimeError", val |-> <<>>]
           ELSE /\ sched_pc' = "returned"
                /\ sched_result' = [kind |-> "returned", val |-> <<>>]
    /\ UNCHANGED <<sched_file, sched_call, schedFrame>>

\* No use of the cpufreq module nor of the coordinator, memo and runtime.
NoCpufreq == NoModuleUse /\ NoAsyn

InitFeatures ==
    /\ NoCpufreq
    /\ NoVexpress
    /\ sched_file \in FeatureFiles
    /\ sched_call = [name |-> "none"]
    /\ sched_result = [kind |-> "none"]
    /\ sched_pc = "idle"

NextFeatures ==
    \/ GetFeatures
    \/ \E feature \in FeatureNames, enable, verify \in BOOLEAN : SetFeature(feature, enable, verify)
    \/ VerifyFeature

SpecFeatures == InitFeatures /\ [][NextFeatures]_vars

----------------------------------------------------------------------------
(* SchedModule: get_kernel_attributes *)

\* The values of the attributes, as the utility prints them, and the
\* integer of those that are made of digits.
AttributeValues == {"0", "1", "7", "-1"}
DigitStrings == ("0" :> 0) @@ ("1" :> 1) @@ ("7" :> 7)

\* value_s.isdigit()
isdigit(value_s) == value_s \in DOMAIN DigitStrings

\* The lines of the output: "path:value_s", or a line without colon.
OutputLines ==
    [colon : {TRUE}, path : {"a", "b"}, value_s : AttributeValues]
    \cup {[colon |-> FALSE, path |-> "", value_s |-> ""]}

\* The longest output.
MaxLines == 3

\* A value of the result, with the text it was made from; the local
\* variable value before its first assignment.
BoolValue(value_s) == [type |-> "bool", val |-> DigitStrings[value_s], of |-> value_s]
IntValue(value_s) == [type |-> "int", val |-> DigitStrings[value_s], of |-> value_s]
Unbound == [type |-> "unbound", val |-> 0, of |-> ""]

\* result[path] = value
Stored(result, path, value) ==
    [p \in DOMAIN result \cup {path} |-> IF p = path THEN value ELSE result[p]]

\* The loop of get_kernel_attributes from entry i on, with the local
\* variable value and the result so far: value keeps what it holds when
\* value_s is neither '0' or '1' nor made of digits, and reading it before
\* its first assignment raises UnboundLocalError.
RECURSIVE kernel_attributes(_, _, _, _)
kernel_attributes(output, i, value, result) ==
    IF i > Len(output) THEN [kind |-> "returned", val |-> result]
    ELSE IF ~output[i].colon THEN kernel_attributes(output, i + 1, value, result)
    ELSE LET value_s == output[i].value_s
             next == IF value_s \in {"0", "1"} THEN BoolValue(value_s)
                     ELSE IF isdigit(value_s) THEN IntValue(value_s)
                     ELSE value
         IN  IF next = Unbound
             THEN [kind |-> "UnboundLocalError", val |-> result]
             ELSE kernel_attributes(output, i + 1, next, Stored(result, output[i].path, next))

\* get_kernel_attributes()
GetKernelAttributes ==
    /\ sched_pc = "idle"
    /\ sched_call' = [name |-> "get_kernel_attributes"]
    /\ sched_result' = kernel_attributes(sched_file, 1, Unbound, [p \in {} |-> Unbound])
    /\ sched_pc' = IF sched_result'.kind = "returned" THEN "returned" ELSE "raised"
    /\ UNCHANGED <<sched_file, schedFrame>>

InitAttributes ==
    /\ NoCpufreq
    /\ NoVexpress
    /\ sched_file \in UNION {[1 .. n -> OutputLines] : n \in 0 .. MaxLines}
    /\ sched_call = [name |-> "none"]
    /\ sched_result = [kind |-> "none"]
    /\ sched_pc = "idle"

NextAttributes == GetKernelAttributes

SpecAttributes == InitAttributes /\ [][NextAttributes]_vars

----------------------------------------------------------------------------
(* SchedDomain: the flags of a domain *)

\* The members of SchedDomainFlag, in the order of their definition; the
\* value of the k-th one is the bit k - 1.
FlagNames ==
    <<"SD_LOAD_BALANCE", "SD_BALANCE_NEWIDLE", "SD_BALANCE_EXEC", "SD_BALANCE_FORK",
      "SD_BALANCE_WAKE", "SD_WAKE_AFFINE", "SD_ASYM_CPUCAPACITY", "SD_SHARE_CPUCAPACITY",
      "SD_SHARE_POWERDOMAIN", "SD_SHARE_PKG_RESOURCES", "SD_SERIALIZE", "SD_ASYM_PACKING",
      "SD_PREFER_SIBLING", "SD_OVERLAP", "SD_NUMA", "SD_SHARE_CAP_STATES">>

\* _SchedDomainFlag(name, value): value is <<>> for None, <<v>> otherwise.
_SchedDomainFlag(name, value) == [name |-> name, value |-> value]

SchedDomainFlag == {_SchedDomainFlag(FlagNames[k], <<2 ^ (k - 1)>>) : k \in DOMAIN FlagNames}

\* The largest bitfield of the dense range of inputs, and the longest list
\* of names.
MaxBitfield == 130
MaxNames == 2

\* The text of a flags node: a decimal number (kernels with a packed
\* bitfield) or names separated by spaces.
FlagsNodes ==
    [digits : {TRUE}, number : 0 .. MaxBitfield \cup {2 ^ 15, 2 ^ 16 - 1}, names : {<<>>}]
    \cup [digits : {FALSE}, number : {0},
          names : UNION {[1 .. n -> {"SD_NUMA", "SD_OVERLAP", "SD_CLUSTER"}] : n \in 0 .. MaxNames}]

\* _build_entry(node_data): int(value) when the text is a number, the text
\* itself otherwise.
_build_entry(node_data) ==
    IF node_data.digits THEN [type |-> "int", int |-> node_data.number, str |-> <<>>]
    ELSE [type |-> "str", int |-> 0, str |-> node_data.names]

\* Whether "for f in flags" can iterate over the value: an int cannot.
Iterable(flags) == flags.type # "int"

\* SchedDomain.__init__, the flags it stores: for a str the value-less
\* flags of the names; otherwise has_flag(flags, flag) is evaluated for the
\* members of SchedDomainFlag, and it iterates over flags.
SchedDomain(node_data) ==
    LET flags == _build_entry(node_data)
    IN  IF flags.type = "str"
        THEN [kind |-> "returned",
              val |-> {_SchedDomainFlag(flags.str[i], <<>>) : i \in DOMAIN flags.str}]
        ELSE IF SchedDomainFlag # {} /\ ~Iterable(flags)
        THEN [kind |-> "TypeError", val |-> {}]
        ELSE [kind |-> "returned", val |-> {}]

\* SchedDomain(nodes) for a domain whose flags node is sched_file.
NewSchedDomain ==
    /\ sched_pc = "idle"
    /\ sched_call' = [name |-> "SchedDomain"]
    /\ sched_result' = SchedDomain(sched_file)
    /\ sched_pc' = IF sched_result'.kind = "returned" THEN "returned" ELSE "raised"
    /\ UNCHANGED <<sched_file, schedFrame>>

InitFlags ==
    /\ NoCpufreq
    /\ NoVexpress
    /\ sched_file \in FlagsNodes
    /\ sched_call = [name |-> "none"]
    /\ sched_result = [kind |-> "none"]
    /\ sched_pc = "idle"

NextFlags == NewSchedDomain

SpecFlags == InitFlags /\ [][NextFlags]_vars

----------------------------------------------------------------------------
(* SchedModule: get_capacities *)

\* What the target holds for get_capacities: the online CPUs, for each the
\* content of cpu_capacity (<<>> when the file does not exist) and the
\* largest capacity of its energy model (<<>> when procfs has no cap_states
\* for it), whether the sched_domain directory holds data, and the flags
\* node of its domains.
CapacityTargets ==
    UNION {[online : {online},
            dmips : [online -> {<<>>, <<1024>>}],
            em : [online -> {<<>>, <<512>>}],
            available : BOOLEAN,
            flags : {[digits |-> TRUE, number |-> 4143, names |-> <<>>],
                     [digits |-> FALSE, number |-> 0, names |-> <<"SD_NUMA">>]}]
           : online \in SUBSET (0 .. NumCpus - 1)}

\* get_sd_info(): SchedProcFSData builds a SchedDomain for every domain of
\* the directory.
get_sd_info(target) == SchedDomain(target.flags)

\* get_capacities(default); default is <<>> for None.
get_capacities(target, default) ==
    LET with_dmips == {cpu \in target.online : target.dmips[cpu] # <<>>}
        capacities == [cpu \in with_dmips |-> target.dmips[cpu][1]]
        missing_cpus == target.online \ with_dmips
        has_em(cpu) == target.em[cpu] # <<>>
    IN  IF missing_cpus = {} THEN [kind |-> "returned", val |-> capacities]
        ELSE IF ~target.available
        THEN IF default # <<>>
             THEN [kind |-> "returned",
                   val |-> [cpu \in target.online |->
                                IF cpu \in with_dmips THEN capacities[cpu] ELSE default[1]]]
             ELSE [kind |-> "RuntimeError", val |-> capacities]
        ELSE IF get_sd_info(target).kind # "returned"
        THEN [kind |-> get_sd_info(target).kind, val |-> capacities]
        ELSE IF default = <<>> /\ \E cpu \in missing_cpus : ~has_em(cpu)
        THEN [kind |-> "RuntimeError", val |-> capacities]
        ELSE [kind |-> "returned",
              val |-> [cpu \in target.online |->
                           IF cpu \in with_dmips THEN capacities[cpu]
                           ELSE IF has_em(cpu) THEN target.em[cpu][1]
                           ELSE default[1]]]

GetCapacities(default) ==
    /\ sched_pc = "idle"
    /\ sched_call' = [name |-> "get_capacities", default |-> default]
    /\ sched_result' = get_capacities(sched_file, default)
    /\ sched_pc' = IF sched_result'.kind = "returned" THEN "returned" ELSE "raised"
    /\ UNCHANGED <<sched_file, schedFrame>>

InitCapacities ==
    /\ NoCpufreq
    /\ NoVexpress
    /\ sched_file \in CapacityTargets
    /\ sched_call = [name |-> "none"]
    /\ sched_result = [kind |-> "none"]
    /\ sched_pc = "idle"

NextCapacities == \E default \in {<<>>, <<0>>, <<5>>} : GetCapacities(default)

SpecCapacities == InitCapacities /\ [][NextCapacities]_vars

----------------------------------------------------------------------------
(* vexpress: wait_for_vemsd *)

vexpressFrame == <<deviceVars, io_failed, moduleVars, scopeVars, entryVars, iterVars, callVars,
                   asynVars, outer, schedVars, rfiles, exc_args>>

\* The largest number of retries a caller asks for.
MaxRetries == 4

\* attempts = 1 + retries
attempts_none(retries) == 1
attempts(retries) == 1 + retries

\* wait_for_vemsd(vemsd_mount, tty, retries=retries), up to the loop: it
\* returns at once when config.txt exists.
WaitForVemsd(retries) ==
    /\ vx_pc = "idle"
    /\ vx_retries' = retries
    /\ vx_pc' = IF vx_exists THEN "returned"
                ELSE IF attempts(retries) > 0 THEN "clear"
                ELSE "TargetStableError"
    /\ UNCHANGED <<vx_exists, vx_round, vx_sent, schedVars, vexpressFrame>>

\* tty.sendline('')
Clear ==
    /\ vx_pc = "clear"
    /\ vx_sent' = Append(vx_sent, "")
    /\ vx_pc' = "expect"
    /\ UNCHANGED <<vx_exists, vx_retries, vx_round, schedVars, vexpressFrame>>

\* tty.expect(mcc_prompt, timeout=short_delay): the prompt is read, or the
\* delay passes without it and pexpect raises TIMEOUT.
Expect ==
    /\ vx_pc = "expect"
    /\ vx_pc' \in {"usb_on", "TIMEOUT"}
    /\ UNCHANGED <<vx_exists, vx_retries, vx_round, vx_sent, schedVars, vexpressFrame>>

\* tty.sendline('usb_on')
UsbOn ==
    /\ vx_pc = "usb_on"
    /\ vx_sent' = Append(vx_sent, "usb_on")
    /\ vx_pc' = "sleep"
    /\ UNCHANGED <<vx_exists, vx_retries, vx_round, schedVars, vexpressFrame>>

\* time.sleep(short_delay * 3) and the test of config.txt that ends the
\* round: return, the next round, or TargetStableError after the last one.
Sleep ==
    /\ vx_pc = "sleep"
    /\ vx_round' = vx_round + 1
    /\ vx_pc' = IF vx_exists THEN "returned"
                ELSE IF vx_round' < attempts(vx_retries) THEN "clear"
                ELSE "TargetStableError"
    /\ UNCHANGED <<vx_exists, vx_retries, vx_sent, schedVars, vexpressFrame>>

\* The board mounts or unmounts the VEMSD while the function waits.
Mount ==
    /\ vx_pc \in {"clear", "expect", "usb_on", "sleep"}
    /\ vx_exists' = ~vx_exists
    /\ UNCHANGED <<vx_retries, vx_round, vx_sent, vx_pc, schedVars, vexpressFrame>>

InitVemsd ==
    /\ NoCpufreq
    /\ NoSched
    /\ vx_exists \in BOOLEAN
    /\ vx_retries = 0
    /\ vx_round = 0
    /\ vx_sent = <<>>
    /\ vx_pc = "idle"

\* The steps of wait_for_vemsd.
VemsdStep ==
    \/ \E retries \in 0 .. MaxRetries : WaitForVemsd(retries)
    \/ Clear
    \/ Expect
    \/ UsbOn
    \/ Sleep

NextVemsd == VemsdStep \/ Mount

SpecVemsd == InitVemsd /\ [][NextVemsd]_vars

\* The function is run: none of its steps blocks for ever.
SpecVemsdFair == SpecVemsd /\ WF_vars(VemsdStep)

----------------------------------------------------------------------------
(* Properties *)

\* What get_governor_tunables reads for a cpu, given the files' contents.
TunablesOf(G, T, GT, cpu) == IF G[cpu] \in GlobalGovs THEN GT[G[cpu]] ELSE T[cpu]

\* The cpu has the governor and the readable tunables it had at entry.
Restored(cpu) ==
    /\ gov[cpu] = gov0[cpu]
    /\ TunablesOf(gov, tun, gtun, cpu) = TunablesOf(gov0, tun0, gtun0, cpu)

Left == phase \in {"exited", "raised"}

\* C1: round trip. Once a scope whose body returned has been left, and no
\* read or write of the device has failed, every cpu of cpus has the governor
\* and the readable tunables it had when the scope was entered.
C1_RoundTrip ==
    (Left /\ body = "returned" /\ ~io_failed) => \A c \in cpus : Restored(c)

\* C2: round trip under failure. Once a scope whose body raised has been
\* left, and no read or write of the device has failed, the exception that
\* left it is the body's and every cpu of cpus has the governor and the
\* readable tunables it had when the scope was entered.
C2_RoundTripUnderFailure ==
    (Left /\ body = "raised" /\ ~io_failed) =>
        /\ exc = "BodyError"
        /\ \A c \in cpus : Restored(c)

\* C3: the scenario. While the body runs get_governor(0) and get_governor(2)
\* give "performance"; once the scope has been left after its body ran and
\* the restore phase has completed they give "ondemand".
C3_Scenario ==
    /\ phase = "body" =>
        get_governor(0) = "performance" /\ get_governor(2) = "performance"
    /\ (phase = "exited" \/ (phase = "raised" /\ exc = "BodyError")) =>
        get_governor(0) = "ondemand" /\ get_governor(2) = "ondemand"

C3_Witness ==
    /\ phase = "exited"
    /\ get_governor(0) = "ondemand" /\ get_governor(2) = "ondemand"
    /\ Counted(GovernorFile(0)) = 2 /\ Counted(GovernorFile(2)) = 2

\* C4: a scope left by a failure before the snapshots were complete has
\* issued no write (every file is as it was at entry) and has not run its body.
C4_CaptureFailure ==
    (phase = "raised" /\ cpus_infos = <<>>) =>
        /\ DOMAIN wcount = {}
        /\ gov = gov0 /\ tun = tun0 /\ gtun = gtun0 /\ freq = freq0
        /\ body = "none"

C4_Witness ==
    /\ phase = "raised" /\ cpus_infos = <<>> /\ cpus # {}
    /\ exc = "TargetStableError" /\ io_failed
    /\ DOMAIN wcount = {}

\* C5: when the apply phase fails on a scope of several domains (the scope
\* is left with snapshots taken and the body not run), every policy has the
\* governor it had at entry.
C5_ApplyFailureRestores ==
    (/\ phase = "raised" /\ cpus_infos # <<>> /\ body = "none"
     /\ Cardinality(domains) >= 2) =>
        \A c \in CPUs : gov[c] = gov0[c]

\* C6 (as claimed): a scope whose body raised is left by the body's exception.
C6_BodyErrorSurfaces ==
    (phase = "raised" /\ body = "raised") => exc = "BodyError"

\* C6 (amended): a scope whose body raised is left by the body's exception
\* if the restore phase completed, and else by the exception of the restore
\* phase, with the body's exception as its context.
C6_RestoreErrorSurfaces ==
    (phase = "raised" /\ body = "raised") =>
        \/ exc = "BodyError" /\ exc_context = "none"
        \/ exc \in {"TargetStableError", "KeyError"} /\ exc_context = "BodyError"

C6_Witness ==
    /\ phase = "raised" /\ body = "raised"
    /\ exc = "TargetStableError" /\ exc_context = "BodyError"
    /\ \E c \in CPUs : gov[c] # gov0[c]

SnapshotLayout == <<"get_affected_cpus", "get_governor", "get_governor_tunables",
                    "get_frequency">>

C8_ResultsByPosition ==
    /\ phase = "capture" =>
        \A t \in DOMAIN tasks :
            tasks[t].pc = "done" => tasks[t].res.kind = SnapshotLayout[t.slot]
    /\ \A i \in DOMAIN cpus_infos :
        LET cpu == cpus_infos[i][1]
            info == cpus_infos[i][2]
        IN  /\ \A k \in DOMAIN SnapshotLayout : info[k].kind = SnapshotLayout[k]
            /\ info[1].val = SortedSeq(DomainOf(cpu))
            /\ info[2].val = gov0[cpu]
            /\ info[4].val = freq0[cpu]
    /\ phase = "restore_tunables" =>
        \A t \in DOMAIN tasks :
            t.batch = "per_cpu" =>
                /\ tasks[t].gov = gov0[t.cpu]
                /\ tasks[t].freq = IntArg(freq0[t.cpu])
                /\ tasks[t].then = "set_frequency" <=> gov0[t.cpu] = "userspace"

\* The frequency has been read for a cpu before its affected cpus.
C8_Witness ==
    /\ phase = "capture"
    /\ \E c \in cpus :
        /\ tasks[CaptureTask(c, 4)].pc = "done"
        /\ tasks[CaptureTask(c, 4)].res.val = freq0[c]
        /\ tasks[CaptureTask(c, 1)].pc = "pending"

\* C9: key fidelity. The snapshot map has exactly the cpus of the scope as
\* keys, and the tunables of a snapshot have exactly the names listed for the
\* governor that are not write-only as keys, each with the file's value.
C9_KeyFidelity ==
    /\ cpus_infos # <<>> =>
        /\ Keys(cpus_infos) = cpus
        /\ Len(cpus_infos) = Cardinality(cpus)
    /\ \A i \in DOMAIN cpus_infos :
        LET cpu == cpus_infos[i][1]
            g == gov0[cpu]
            tunables == cpus_infos[i][2][3].val
            listed == Range(governor_tunables[g].tunables)
        IN  /\ Keys(tunables) = listed \ WRITE_ONLY_TUNABLES(g)
            /\ Len(tunables) = Cardinality(Keys(tunables))
            /\ \A k \in DOMAIN tunables :
                tunables[k][2] = TunablesOf(gov0, tun0, gtun0, cpu)[tunables[k][1]]
            /\ ~io_failed => Keys(tunables) = ReadableFiles(g)

C9_Witness ==
    /\ Len(cpus_infos) = 2
    /\ \E i \in DOMAIN cpus_infos :
        /\ cpus_infos[i][2][2].val = "interactive"
        /\ cpus_infos[i][2][3].val = <<<<"timer_rate", 1>>>>

\* C10: failure propagation. The capture ends either with every read done
\* and the complete snapshot map, or, as soon as one read fails, with its
\* exception leaving the scope and no snapshot map; a scope that was left
\* without snapshot map never gets one.
C10_FailurePropagation ==
    [][/\ (phase = "capture" /\ phase' # "capture") =>
            IF Unfinished = {}
            THEN phase' = "apply" /\ Keys(cpus_infos') = cpus
            ELSE phase' = "raised" /\ exc' = "TargetStableError" /\ cpus_infos' = <<>>
       /\ phase = "raised" => cpus_infos' = cpus_infos]_vars

C10_Witness ==
    /\ phase = "raised" /\ body = "none"
    /\ Cardinality(cpus) = 2 /\ cpus_infos = <<>>
    /\ exc = "TargetStableError"

Finished == phase \in {"exited", "raised"}

DeviceAsAtEntry == gov = gov0 /\ tun = tun0 /\ gtun = gtun0 /\ freq = freq0

\* The tunable files written so far.
TunableWrites == {f \in DOMAIN wcount : f.file \in {"per_cpu_tunable", "global_tunable"}}

\* The file set_governor_tunables writes for a tunable the governor has.
TunableFileOf(cpu, g, n) ==
    IF governor_tunables[g].per_cpu THEN PerCpuFile(cpu, g, n) ELSE GlobalFile(g, n)

\* C14: set_governor(cpu, name) with a name that list_governors(cpu) does not
\* have writes nothing at any point and ends raising TargetStableError; with
\* a name it has, it writes cpu's scaling_governor once, no tunable before
\* it, and when it returns every tunable given has been written once.
C14_SetGovernor ==
    op.name = "set_governor" =>
        /\ op.gov \notin Range(AvailableGovernors) =>
            /\ DOMAIN wcount = {}
            /\ DeviceAsAtEntry
            /\ Finished => phase = "raised" /\ exc = "TargetStableError"
        /\ op.gov \in Range(AvailableGovernors) =>
            /\ DOMAIN wcount \ TunableWrites \subseteq {GovernorFile(op.cpu)}
            /\ Counted(GovernorFile(op.cpu)) <= 1
            /\ TunableWrites # {} => Counted(GovernorFile(op.cpu)) = 1
            /\ phase = "exited" =>
                /\ Counted(GovernorFile(op.cpu)) = 1
                /\ get_governor(op.cpu) = op.gov
                /\ \A i \in DOMAIN op.kw :
                    Counted(TunableFileOf(op.cpu, op.gov, op.kw[i][1])) = 1

C14_Witness ==
    /\ op.name = "set_governor"
    /\ op.gov \notin Range(AvailableGovernors)
    /\ phase = "raised" /\ exc = "TargetStableError"
    /\ ~io_failed
    /\ op.cpu \in list_governors_memo

\* The tunables the module has listed for the operation's governor.
ValidTunables == governor_tunables[op.gov].tunables

\* The positions in the operation's tunables of the names the governor lacks.
Invalid == {i \in DOMAIN op.kw : op.kw[i][1] \notin Range(ValidTunables)}

FirstInvalid == CHOOSE i \in Invalid : \A j \in Invalid : i <= j

\* The value a tunable file holds, for the tunables that can be read back.
Holds(cpu, g, n, v) ==
    n \in ReadableFiles(g) =>
        IF governor_tunables[g].per_cpu THEN tun[cpu][n] = v ELSE gtun[g][n] = v

\* C15: set_governor_tunables given a tunable the governor's list lacks never
\* returns; when it raises for that tunable the exception is a
\* TargetStableError naming the first such tunable and the list, the
\* tunables before it have been written once and hold the value given, and
\* those after it have not been written.
C15_InvalidTunable ==
    (op.name = "set_governor_tunables" /\ Finished) =>
        /\ (op.gov \in DOMAIN governor_tunables /\ Invalid # {}) => phase = "raised"
        /\ (phase = "raised" /\ exc_args = <<>>) => io_failed
        /\ exc_args # <<>> =>
            /\ phase = "raised" /\ exc = "TargetStableError"
            /\ Invalid # {}
            /\ exc_args[2] = op.kw[FirstInvalid][1]
            /\ exc_args[5] = ValidTunables
            /\ \A i \in DOMAIN op.kw :
                LET n == op.kw[i][1]
                IN  /\ i < FirstInvalid =>
                        /\ Counted(TunableFileOf(op.cpu, op.gov, n)) = 1
                        /\ Holds(op.cpu, op.gov, n, op.kw[i][2])
                    /\ i > FirstInvalid =>
                        /\ Counted(PerCpuFile(op.cpu, op.gov, n)) = 0
                        /\ Counted(GlobalFile(op.gov, n)) = 0

C15_Witness ==
    /\ op.name = "set_governor_tunables"
    /\ phase = "raised" /\ exc_args # <<>>
    /\ FirstInvalid = 2 /\ Len(op.kw) = 3
    /\ Counted(GlobalFile(op.gov, op.kw[1][1])) = 1
    /\ gtun[op.gov][op.kw[1][1]] = op.kw[1][2]
    /\ gtun0[op.gov][op.kw[1][1]] # op.kw[1][2]

\* The operation has raised one of the validation errors.
ValidationError ==
    /\ op.name \in {"set_governor", "set_governor_tunables", "set_frequency"}
    /\ phase = "raised"
    /\ exc_args # <<>>
    /\ exc_args[1] \in {"Governor not supported", "Unexpected tunable", "Can't set frequency"}

\* C16 (as claimed): an operation that has raised a validation error has
\* written nothing, and the device is as it was when it was called.
C16_ValidationBeforeWrites ==
    ValidationError => DOMAIN wcount = {} /\ DeviceAsAtEntry

\* C16 (amended): an operation that has raised for an unsupported governor or
\* an unsupported frequency has written nothing and the device is as it was
\* when it was called; one that has raised for an unknown tunable has
\* written the tunables given before it and, if it is set_governor, the
\* governor, and nothing else.
C16_ValidationAndWrites ==
    ValidationError =>
        /\ exc_args[1] # "Unexpected tunable" => DOMAIN wcount = {} /\ DeviceAsAtEntry
        /\ exc_args[1] = "Unexpected tunable" =>
            /\ TunableWrites =
                    {TunableFileOf(op.cpu, op.gov, op.kw[i][1]) :
                        i \in {j \in DOMAIN op.kw : j < FirstInvalid}}
            /\ DOMAIN wcount \ TunableWrites =
                    IF op.name = "set_governor" THEN {GovernorFile(op.cpu)} ELSE {}
            /\ \A f \in DOMAIN wcount : wcount[f] = 1

C16_Witness ==
    /\ ValidationError
    /\ op.name = "set_governor"
    /\ exc_args[1] = "Unexpected tunable"
    /\ Counted(GovernorFile(op.cpu)) = 1
    /\ get_governor(op.cpu) = op.gov /\ gov0[op.cpu] # op.gov

\* C17: idempotence. During and after set_governor(d, g) without tunables,
\* g being the governor d had when it was called, every governor, tunable
\* and frequency of the device is as it was when it was called.
C17_Idempotence ==
    (op.name = "set_governor" /\ op.kw = <<>> /\ op.gov = gov0[op.cpu]) => DeviceAsAtEntry

C17_Witness ==
    /\ op.name = "set_governor" /\ op.kw = <<>> /\ op.gov = gov0[op.cpu]
    /\ phase = "exited"
    /\ Counted(GovernorFile(op.cpu)) = 1
    /\ TunablesOf(gov, tun, gtun, op.cpu) # DefaultTunables(op.gov)

\* set_governor_tunables(0, "interactive", boostpulse=1)
SetBoostpulse ==
    Operation("set_governor_tunables", 0, "interactive", "None", <<<<"boostpulse", 1>>>>, IntArg(0))

BoostpulseWritten ==
    /\ phase = "exited"
    /\ Counted(GlobalFile("interactive", "boostpulse")) = 1

\* No call of get_governor_tunables has read a boostpulse file or returned
\* boostpulse among its keys.
BoostpulseNotRead ==
    /\ \A f \in rfiles : f.name # "boostpulse"
    /\ "boostpulse" \notin Keys(returned)

\* C18 (as claimed): whatever was called before, set_governor_tunables(0,
\* "interactive", boostpulse=1) called with "interactive" active on cpu 0
\* returns, if no read or write of the device fails, having written the
\* file; and get_governor_tunables never reads it nor returns it.
C18_WriteOnlyAlways ==
    /\ (op = SetBoostpulse /\ Finished /\ ~io_failed /\ gov0[0] = "interactive") =>
            BoostpulseWritten
    /\ BoostpulseNotRead

\* C18 (amended): the same, for a module whose list of the tunables of
\* "interactive" has boostpulse (it was not made while no cpu was on
\* "interactive").
C18_WriteOnly ==
    /\ (/\ op = SetBoostpulse /\ Finished /\ ~io_failed /\ gov0[0] = "interactive"
        /\ "boostpulse" \in Range(ValidTunables)) =>
            BoostpulseWritten
    /\ BoostpulseNotRead

C18_Witness ==
    /\ op = SetBoostpulse
    /\ gov0[0] = "interactive"
    /\ BoostpulseWritten
    /\ "boostpulse" \in Range(ValidTunables)
    /\ "boostpulse" \notin DOMAIN gtun["interactive"]

\* The cpus of a policy through which the governor has been written.
GovernorWriters(d) == {c \in d : Counted(GovernorFile(c)) > 0}

\* C19: in the apply phase, and when the body starts, the governor has been
\* written at most once per policy, through its representative only, and
\* to no policy without a cpu in cpus; when the body starts it has been
\* written once to every policy with a cpu in cpus.
C19_OneWritePerDomain ==
    phase \in {"apply", "body"} =>
        \A d \in topo :
            /\ GovernorWriters(d) \subseteq d \cap domains
            /\ Cardinality(GovernorWriters(d)) <= 1
            /\ \A c \in d : Counted(GovernorFile(c)) <= 1
            /\ d \cap cpus = {} => GovernorWriters(d) = {}
            /\ (phase = "body" /\ d \cap cpus # {}) => Cardinality(GovernorWriters(d)) = 1

C19_Witness ==
    /\ phase = "body"
    /\ \E d \in topo :
        /\ Cardinality(d \cap cpus) = 2
        /\ Cardinality(GovernorWriters(d)) = 1
        /\ \A c \in d : get_governor(c) = governor

\* The writes so far to the files that are not a scaling_governor.
OtherWrites == [f \in {x \in DOMAIN wcount : x.file # "scaling_governor"} |-> wcount[f]]

\* C20: while the governors are being set back no tunable and no frequency
\* is written, and once the tunables are being set back the governor of
\* every domain has been written back and no governor is written any more.
C20_GovernorsBeforeTunables ==
    [][/\ phase = "restore_gov" => OtherWrites' = OtherWrites
       /\ phase' = "restore_tunables" =>
            \A c \in domains' : Counted(GovernorFile(c))' = 2
       /\ phase = "restore_tunables" =>
            \A c \in CPUs : Counted(GovernorFile(c))' = Counted(GovernorFile(c))]_vars

C20_Witness ==
    /\ phase = "restore_tunables"
    /\ Cardinality(domains) = 2
    /\ \A c \in domains : Counted(GovernorFile(c)) = 2
    /\ \E f \in DOMAIN OtherWrites : f.cpu \in domains /\ f.gov = gov0[f.cpu]

\* The tasks of the call that are still to run or to unwind.
StillRunning == {t \in DOMAIN co_tasks : Ready(t) \/ Cancelling(t)}

\* C11: once a task of a concurrently() call has failed no task is left
\* that has neither finished nor been cancelled; the call raises only when
\* every cancelled task has unwound, so that no task is still running once
\* it has raised; and what it raises is the first failure.
C11_CancelThenRaise ==
    /\ co_failures # <<>> => \A t \in DOMAIN co_tasks : ~Ready(t)
    /\ co_failures # <<>> => co_call \in {"cancelling", "raised"}
    /\ co_call = "raised" =>
        /\ StillRunning = {}
        /\ co_failures # <<>>
        /\ co_raised = Head(co_failures)
        /\ co_tasks[co_raised].pc = "failed"
    /\ co_call # "raised" => co_raised = "none"

C11_Witness ==
    /\ co_call = "raised"
    /\ Len(co_failures) = 2
    /\ \E t \in DOMAIN co_tasks : co_tasks[t].pc = "cancelled" /\ co_tasks[t].left = 2
    /\ \E t \in DOMAIN co_tasks : co_tasks[t].pc = "failed" /\ t # co_raised

\* The reads of the device made for a key.
ReadsOf(k) == SelectSeq(memo_reads, LAMBDA r : r.key = k)

\* The callers with a key that have been called.
Called(k) == {c \in DOMAIN memo_callers :
                memo_callers[c].key = k /\ memo_callers[c].pc # "idle"}

\* C12: for every key of a memoized method at most one read of the device
\* is ever made, whatever the number of calls and whether they overlap;
\* every call that has returned has the result of that read; once a result
\* is stored there has been exactly one read, and a call that finds the
\* result stored returns it without a read.
C12_SingleFlight ==
    \A k \in DOMAIN memo_file :
        /\ Len(ReadsOf(k)) <= 1
        /\ k \in DOMAIN memo_cache => Len(ReadsOf(k)) = 1
        /\ Cardinality({c \in Called(k) : memo_callers[c].how = "produced"}) = Len(ReadsOf(k))
        /\ \A c \in Called(k) :
            memo_callers[c].pc = "returned" =>
                /\ Len(ReadsOf(k)) = 1
                /\ memo_callers[c].result = ReadsOf(k)[1].value

C12_Witness ==
    \E k \in DOMAIN memo_file :
        /\ Len(ReadsOf(k)) = 1
        /\ memo_file[k] # memo_cache[k]
        /\ \A c \in DOMAIN memo_callers : memo_callers[c].pc = "returned"
        /\ {memo_callers[c].how : c \in Called(k)} = {"produced", "awaited", "stored"}

\* C13: the work of a blocking call made while the scheduler is active is
\* never run and the call raises a reentrancy error, which leaves the
\* operation that made it; the call of the outermost caller is run, and it
\* returns only if its coroutine makes no blocking call.
C13_Reentrancy ==
    /\ rt_ran \subseteq {rt_op}
    /\ Len(rt_sched) <= 1
    /\ rt_pc \in {"running", "raising", "returned", "raised"} => rt_ran = {rt_op}
    /\ rt_pc \in {"raising", "raised"} =>
        /\ rt_error = "ReentrancyError"
        /\ rt_todo = FacadeCalls(rt_op) /\ rt_todo # <<>>
    /\ rt_pc = "returned" => rt_error = "none" /\ FacadeCalls(rt_op) = <<>>

C13_Witness ==
    /\ rt_pc = "raised"
    /\ rt_op.name = "set_governor_for_cpus"
    /\ Len(FacadeCalls(rt_op)) = 2
    /\ rt_error = "ReentrancyError"
    /\ rt_ran = {rt_op}
    /\ rt_sched = <<>>

\* The writes the apply phase makes to a tunable file.
AppliedTo(f) ==
    IF f.gov = governor /\ \E i \in DOMAIN kwargs : kwargs[i][1] = f.name
    THEN IF f.file = "per_cpu_tunable" THEN 1 ELSE Cardinality(domains)
    ELSE 0

\* The write of every tunable of a snapshot has been made once more than
\* the apply phase made it.
TunablesWritten(cpu, g, tunables) ==
    \A i \in DOMAIN tunables :
        LET f == IF g \in GlobalGovs THEN GlobalFile(g, tunables[i][1])
                 ELSE PerCpuFile(cpu, g, tunables[i][1])
        IN  Counted(f) = AppliedTo(f) + 1

\* Every write of the restore phase has been made: governor, tunables and
\* frequency of every domain.
RestoreWritten ==
    \A c \in domains :
        /\ HasKey(cpus_infos, c)
        /\ LET info == Get(cpus_infos, c)
           IN  /\ Counted(GovernorFile(c)) = 2
               /\ info[2].val \notin GlobalGovs =>
                    TunablesWritten(c, info[2].val, info[3].val)
               /\ info[2].val \in GlobalGovs =>
                    \E e \in global_tunables_dict :
                        e.gov = info[2].val /\ TunablesWritten(e.cpu, e.gov, e.tunables)
               /\ Counted(SetspeedFile(c)) = IF info[2].val = "userspace" THEN 1 ELSE 0

\* C21: a scope whose body returned is left without an exception only if
\* every write of the restore phase was made; when one of them has failed
\* the scope is left by an exception.
C21_RestoreFailureRaised ==
    (Left /\ body = "returned") =>
        /\ phase = "exited" => RestoreWritten
        /\ ~RestoreWritten => phase = "raised" /\ exc \in {"TargetStableError", "KeyError"}

C21_Witness ==
    /\ phase = "raised"
    /\ body = "returned"
    /\ exc = "TargetStableError"
    /\ io_failed
    /\ \A c \in domains : Counted(GovernorFile(c)) = 2
    /\ \E c \in domains :
        /\ Get(cpus_infos, c)[2].val = "userspace"
        /\ Counted(SetspeedFile(c)) = 0

\* set_frequency has written nothing but the cpu's scaling_setspeed, once
\* and under "userspace" only; under another governor it has raised
\* TargetStableError when it has ended.
FrequencySet ==
    /\ DOMAIN wcount \subseteq {SetspeedFile(op.cpu)}
    /\ Counted(SetspeedFile(op.cpu)) <= 1
    /\ Counted(SetspeedFile(op.cpu)) = 1 => get_governor(op.cpu) = "userspace"
    /\ phase = "exited" => Counted(SetspeedFile(op.cpu)) = 1
    /\ gov0[op.cpu] # "userspace" =>
        /\ DOMAIN wcount = {}
        /\ DeviceAsAtEntry
        /\ Finished => phase = "raised" /\ exc = "TargetStableError"

\* C22 as stated: set_frequency(cpu, f), whatever f is, writes
\* scaling_setspeed only under "userspace", and under any other governor
\* raises TargetStableError and writes nothing.
C22_SetFrequencyAlways == op.name = "set_frequency" => FrequencySet

\* C22: set_frequency(cpu, f) with f an integer or the literal of one
\* writes scaling_setspeed only under "userspace", and under any other
\* governor raises TargetStableError and writes nothing; with an f that is
\* no integer it raises ValueError and writes nothing under every governor.
C22_SetFrequency ==
    op.name = "set_frequency" =>
        /\ int(op.freq).ok => FrequencySet
        /\ ~int(op.freq).ok =>
            /\ DOMAIN wcount = {}
            /\ Finished => phase = "raised" /\ exc = "ValueError"

C22_Witness ==
    /\ op = Operation("set_frequency", 0, "", "None", <<>>, IntArg(2))
    /\ gov0[0] = "ondemand"
    /\ phase = "raised" /\ exc = "TargetStableError"
    /\ exc_args = <<"governor must be userspace", 0>>
    /\ ~io_failed

\* The operation sets a frequency: the one used, the lowest or the highest.
SetsFrequency == op.name \in {"set_frequency", "set_min_frequency", "set_max_frequency"}

\* C23: set_frequency, set_min_frequency and set_max_frequency (exact left
\* at True) write nothing at any point and end raising TargetStableError
\* when the value is an integer that the available frequencies lack, and
\* write nothing and end raising ValueError when the value is no integer
\* (set_min_frequency and set_max_frequency: TargetStableError if the
\* device failed to give the available frequencies, which they ask first).
C23_FrequencyChecked ==
    SetsFrequency =>
        LET value == int(op.freq)
        IN  /\ (value.ok /\ value.val \notin Range(AvailableFrequencies)) =>
                /\ DOMAIN wcount = {}
                /\ DeviceAsAtEntry
                /\ Finished => phase = "raised" /\ exc = "TargetStableError"
                /\ (Finished /\ ~io_failed) =>
                    exc_args = <<"Can't set frequency", op.cpu, value.val,
                                 AvailableFrequencies>>
            /\ ~value.ok =>
                /\ DOMAIN wcount = {}
                /\ DeviceAsAtEntry
                /\ Finished => phase = "raised"
                /\ Finished =>
                    \/ exc = "ValueError"
                    \/ /\ exc = "TargetStableError"
                       /\ io_failed
                       /\ op.name # "set_frequency"
            /\ phase = "exited" => value.ok /\ value.val \in Range(AvailableFrequencies)

C23_Witness ==
    /\ op.name = "set_max_frequency"
    /\ op.freq = StrArg("3")
    /\ phase = "raised" /\ exc = "TargetStableError"
    /\ ~io_failed
    /\ ncalls = 2
    /\ 0 \in list_frequencies_memo

C25_RestoreGovernorOnce ==
    (body # "none" /\ ~io_failed /\ phase \in {"restore_tunables", "exited", "raised"}) =>
        \A c \in domains :
            /\ HasKey(cpus_infos, c)
            /\ Counted(GovernorFile(c)) = 2
            /\ get_governor(c) = Get(cpus_infos, c)[2].val
            /\ Get(cpus_infos, c)[2].val = gov0[c]

\* The tunable files, per-CPU and global.
TunableFiles == {"per_cpu_tunable", "global_tunable"}

\* C26: while per_cpu_tunables and global_tunables run, a write to a tunable
\* file is made by a task of the per-CPU batch exactly when the file is a
\* per-CPU one, which it is exactly when the governor is recorded as
\* per-CPU, and by a task of the global batch otherwise; and no tunable
\* file is written more than once by the restore phase.
C26_DisjointBatches ==
    /\ [][phase = "restore_tunables" =>
            \A f \in DOMAIN wcount' :
                (f.file \in TunableFiles /\ Counted(f)' > Counted(f)) =>
                    \E t \in DOMAIN tasks :
                        /\ tasks'[t] # tasks[t]
                        /\ \A u \in DOMAIN tasks \ {t} : tasks'[u] = tasks[u]
                        /\ tasks[t].gov = f.gov
                        /\ (t.batch = "per_cpu") = (f.file = "per_cpu_tunable")
                        /\ (t.batch = "per_cpu") = governor_tunables[f.gov].per_cpu
                        /\ (t.batch = "global") = (f.file = "global_tunable")]_vars
    /\ []((body # "none" /\ phase \in {"restore_gov", "restore_tunables", "exited", "raised"}) =>
            \A f \in DOMAIN wcount :
                f.file \in TunableFiles => Counted(f) <= AppliedTo(f) + 1)

C26_Witness ==
    /\ phase = "restore_tunables"
    /\ \E t, u \in Unfinished : t.batch = "per_cpu" /\ u.batch = "global"
    /\ \E f, g \in DOMAIN wcount :
        /\ f.file = "per_cpu_tunable" /\ Counted(f) = AppliedTo(f) + 1
        /\ g.file = "global_tunable" /\ Counted(g) = AppliedTo(g) + 1

\* The tasks of the global batch, and the governors of the snapshots.
GlobalTasks == {t \in DOMAIN tasks : t.batch = "global"}
PreviousGovernors == {cpus_infos[i][2][2].val : i \in DOMAIN cpus_infos}

\* s is what is left of the sequence q once some of its first elements are gone.
IsSuffix(s, q) == \E n \in 0..Len(q) : s = SubSeq(q, n + 1, Len(q))

\* C27: while the tunables are being set back, there is one task of the
\* global batch for every governor of the snapshots and none else; it is
\* called with per_cpu=False, with a cpu whose snapshot holds that governor
\* and with the tunables of that cpu's snapshot (those it has still to go
\* through are the last ones of the snapshot's).
C27_GlobalBatch ==
    phase = "restore_tunables" =>
        /\ \A g \in PreviousGovernors :
            Cardinality({t \in GlobalTasks : tasks[t].gov = g}) = 1
        /\ \A t \in GlobalTasks :
            /\ tasks[t].gov \in PreviousGovernors
            /\ tasks[t].per_cpu = "False"
            /\ tasks[t].cpu = t.cpu
            /\ HasKey(cpus_infos, t.cpu)
            /\ Get(cpus_infos, t.cpu)[2].val = tasks[t].gov
            /\ IsSuffix(tasks[t].kw, Get(cpus_infos, t.cpu)[3].val)
            /\ tasks[t].pc = "set_governor_tunables" =>
                    tasks[t].kw = Get(cpus_infos, t.cpu)[3].val

C27_Witness ==
    /\ phase = "restore_tunables"
    /\ Len(cpus_infos) = 2
    /\ PreviousGovernors = {"interactive"}
    /\ Cardinality(GlobalTasks) = 1
    /\ \E t \in GlobalTasks :
        /\ tasks[t].pc = "set_governor_tunables"
        /\ tasks[t].kw # <<>>
        /\ t.cpu = cpus_infos[2][1]

\* The tunables of the snapshot of every domain have been written back.
AllTunablesWritten ==
    \A c \in domains :
        /\ HasKey(cpus_infos, c)
        /\ LET info == Get(cpus_infos, c)
           IN  IF info[2].val \in GlobalGovs
               THEN \E e \in global_tunables_dict :
                        e.gov = info[2].val /\ TunablesWritten(e.cpu, e.gov, e.tunables)
               ELSE TunablesWritten(c, info[2].val, info[3].val)

\* A step writes scaling_setspeed of cpu c.
WritesFrequency(c) == Counted(SetspeedFile(c))' > Counted(SetspeedFile(c))

\* The restore phase of a scope whose body ran has ended without raising.
RestoreEnded == Left /\ body # "none" /\ exc \in {"none", "BodyError"}

C29_RepresentativeCaptured ==
    /\ \A c \in domains : HasKey(cpus_infos, c)
    /\ exc # "KeyError"

\* The tasks that are about to list a tunable directory of governor g.
Probing(g) == {t \in DOMAIN tasks :
                /\ InTaskPhase
                /\ tasks[t].pc \in {"list_per_cpu", "list_global"}
                /\ tasks[t].gov = g}

\* C30 as stated: an entry of _governor_tunables is never changed or
\* removed, and once a governor has its entry no call lists a tunable
\* directory of that governor.
C30_CachedOnce ==
    /\ [][\A g \in DOMAIN governor_tunables :
            /\ g \in DOMAIN governor_tunables'
            /\ governor_tunables'[g] = governor_tunables[g]]_vars
    /\ [](\A g \in DOMAIN governor_tunables : Probing(g) = {})

\* C30, amended: an entry of _governor_tunables is never removed, and it
\* changes only by the step of a call that had missed the cache before the
\* entry was written and whose own listing the device has failed; a call
\* that looks the governor up once it has its entry goes on with that
\* entry, the empty one included, and lists no directory.
C30_CacheHit ==
    /\ [][\A g \in DOMAIN governor_tunables :
            /\ g \in DOMAIN governor_tunables'
            /\ governor_tunables'[g] # governor_tunables[g] =>
                /\ io_failed'
                /\ \E t \in Probing(g) :
                    t \in DOMAIN tasks' /\ tasks'[t].data = governor_tunables'[g]]_vars
    /\ [][\A t \in DOMAIN tasks :
            (/\ At(t, "set_governor_tunables")
             /\ tasks[t].kw # <<>>
             /\ tasks[t].gov \in DOMAIN governor_tunables
             /\ t \in DOMAIN tasks'
             /\ tasks'[t] # tasks[t]) =>
                /\ tasks'[t].pc = "tunable"
                /\ tasks'[t].data = governor_tunables[tasks[t].gov]
                /\ governor_tunables' = governor_tunables
                /\ wcount' = wcount]_vars

\* Two calls have missed the cache together: one has stored its result and
\* the other is still to list the directory, with no failure of the device.
C30_Witness ==
    /\ phase = "apply"
    /\ ~io_failed
    /\ governor \in DOMAIN governor_tunables
    /\ governor_tunables[governor].tunables # <<>>
    /\ Probing(governor) # {}
    /\ \E t \in DOMAIN tasks : tasks[t].pc = "tunable" /\ tasks[t].data = governor_tunables[governor]

\* set_governor_tunables is called without tunables, or with a per_cpu that
\* is not the kind the governor is recorded with.
WithoutTunables == op.name = "set_governor_tunables" /\ op.kw = <<>>
OtherKind ==
    /\ op.name = "set_governor_tunables"
    /\ op.per_cpu # "None"
    /\ op.gov \in DOMAIN governor_tunables
    /\ (op.per_cpu = "True") # governor_tunables[op.gov].per_cpu

\* C31: set_governor_tunables without tunables returns with no read and no
\* write of the device and leaves self._governor_tunables alone; called with
\* per_cpu=True for a governor recorded as global, or per_cpu=False for one
\* recorded as per-CPU, it writes no file; the device is as it was.
C31_NothingWritten ==
    /\ [](WithoutTunables =>
            /\ DOMAIN wcount = {} /\ rfiles = {} /\ DeviceAsAtEntry
            /\ phase # "raised"
            /\ \A t \in DOMAIN tasks : tasks[t].pc \in {"set_governor_tunables", "done"})
    /\ [][(WithoutTunables /\ op' = op /\ ncalls' = ncalls) =>
            /\ governor_tunables' = governor_tunables
            /\ io_failed' = io_failed]_vars
    /\ [](OtherKind => DOMAIN wcount = {} /\ DeviceAsAtEntry)

C31_Witness ==
    /\ OtherKind
    /\ op.per_cpu = "True"
    /\ phase = "exited"
    /\ ~io_failed
    /\ op.kw[1][1] \in Range(governor_tunables[op.gov].tunables)
    /\ gtun[op.gov][op.kw[1][1]] # op.kw[1][2]

\* The inner scope has been left and the body of the outer one goes on.
InnerLeft == outer.state \in {"exited", "raised"}

\* C32: once the inner scope has been left, with no failure of the device,
\* every cpu of cpus has the governor of the outer scope; once the outer
\* scope has been left after that, every cpu of cpus has the governor it had
\* when the outer scope was entered.
C32_Nested ==
    (InnerLeft /\ ~io_failed) =>
        /\ phase = "body" => \A c \in cpus : get_governor(c) = governor
        /\ Left => \A c \in cpus : get_governor(c) = gov0[c]

Listed == [n \in {sched_file[i].name : i \in DOMAIN sched_file} |->
            sched_file[CHOOSE i \in DOMAIN sched_file : sched_file[i].name = n].on]

\* C34: get_features returns, for every feature of the file, True when the
\* file lists it by its name and False when it lists it after NO_; and
\* set_feature raises RuntimeError only when the file does not show the
\* feature in the state that was asked for.
C34_Features ==
    /\ (sched_call.name = "get_features" /\ sched_pc = "returned") =>
            sched_result.val = Listed
    /\ (sched_call.name = "set_feature" /\ sched_result.kind = "RuntimeError") =>
            ~\E i \in DOMAIN sched_file :
                sched_file[i].name = sched_call.feature /\ sched_file[i].on = sched_call.enable

\* The last line of the output for an attribute.
LastLine(path) ==
    CHOOSE i \in DOMAIN sched_file :
        /\ sched_file[i].colon /\ sched_file[i].path = path
        /\ \A j \in DOMAIN sched_file :
                (sched_file[j].colon /\ sched_file[j].path = path) => j <= i

\* C35: in the dictionary that get_kernel_attributes returns, the value of
\* an attribute is made from the text of the attribute's own line: a bool
\* for 0 and 1, an int for the other strings of digits.
C35_OwnLine ==
    (sched_call.name = "get_kernel_attributes" /\ sched_pc = "returned") =>
        \A path \in DOMAIN sched_result.val :
            LET value_s == sched_file[LastLine(path)].value_s
                value == sched_result.val[path]
            IN  /\ value.of = value_s
                /\ value_s \in {"0", "1"} => value.type = "bool"
                /\ (isdigit(value_s) /\ value_s \notin {"0", "1"}) => value.type = "int"

\* Whether the bit of a flag is set in a bitfield.
BitSet(v, flag) == (v \div flag.value[1]) % 2 = 1

\* C37: for a flags node that is a packed bitfield v, the flags of the
\* domain are the members of SchedDomainFlag whose bit is set in v; for
\* names separated by spaces they are the value-less flags of those names.
C37_Flags ==
    (sched_call.name = "SchedDomain" /\ sched_pc \in {"returned", "raised"}) =>
        /\ sched_pc = "returned"
        /\ sched_file.digits =>
                sched_result.val = {flag \in SchedDomainFlag : BitSet(sched_file.number, flag)}
        /\ ~sched_file.digits =>
                sched_result.val =
                    {_SchedDomainFlag(sched_file.names[i], <<>>) : i \in DOMAIN sched_file.names}

\* The online CPUs for which the target holds no capacity: no cpu_capacity
\* file, and no energy model in a sched_domain directory that holds data.
WithoutCapacity ==
    {cpu \in sched_file.online :
        /\ sched_file.dmips[cpu] = <<>>
        /\ ~sched_file.available \/ sched_file.em[cpu] = <<>>}

\* C36: when get_capacities returns, the keys of the result are the online
\* CPUs; when the capacity of an online CPU is missing, a default of None
\* makes it raise RuntimeError, and a default of 0 is the capacity of the
\* CPU in the result.
C36_Capacities ==
    (sched_call.name = "get_capacities" /\ sched_pc \in {"returned", "raised"}) =>
        /\ sched_pc = "returned" => DOMAIN sched_result.val = sched_file.online
        /\ (WithoutCapacity # {} /\ sched_call.default = <<>>) =>
                sched_result.kind = "RuntimeError"
        /\ (WithoutCapacity # {} /\ sched_call.default = <<0>>) =>
                /\ sched_pc = "returned"
                /\ \A cpu \in WithoutCapacity : sched_result.val[cpu] = 0

\* The number of times "usb_on" was sent.
UsbOnSent == Cardinality({i \in DOMAIN vx_sent : vx_sent[i] = "usb_on"})

\* C38: wait_for_vemsd terminates; it returns without sending anything
\* when config.txt is there at the call, it sends "usb_on" at most
\* 1 + retries times, it returns when config.txt is there at the end of a
\* round, and it raises TargetStableError when config.txt is still not
\* there at the end of the last round.
C38_BoundedRetries ==
    /\ [](vx_pc # "idle" => UsbOnSent <= 1 + vx_retries)
    /\ [](vx_pc = "TargetStableError" => (~vx_exists /\ vx_round = 1 + vx_retries))
    /\ [][/\ (vx_pc = "idle" /\ vx_exists) => (vx_pc' = "returned" /\ vx_sent' = <<>>)
          /\ (vx_pc = "sleep" /\ vx_pc' # "sleep") =>
                /\ vx_exists => vx_pc' = "returned"
                /\ (~vx_exists /\ vx_round + 1 = 1 + vx_retries) => vx_pc' = "TargetStableError"
                /\ (~vx_exists /\ vx_round + 1 < 1 + vx_retries) => vx_pc' = "clear"]_vars
    /\ [](vx_pc # "idle" => <>(vx_pc \in {"returned", "TargetStableError", "TIMEOUT"}))

\* C38 witness: the call has raised TargetStableError after the last of
\* several rounds, each of which sent "usb_on".
C38_Witness ==
    /\ vx_pc = "TargetStableError"
    /\ vx_retries >= 2
    /\ UsbOnSent = 1 + vx_retries

====
